---- MODULE Spec2Model ----
(***************************************************************************)
(* Admission control (rate limiter) of the delivery system, modelled from  *)
(* internal/services/rate_limiter_service.go.  The remote store (Redis)    *)
(* holds, per identity, a Quota Counter key and a Ban Record key, each     *)
(* with a time to live in seconds.  Every store command of a handler is    *)
(* one step, so calls of different service instances interleave between    *)
(* their store commands; the Lua script is one step.                       *)
(***************************************************************************)
EXTENDS Integers, Sequences, FiniteSets, TLC

\* ---------------------------------------------------------------- bounds
Procs == {"p1", "p2"}          \* concurrent request handlers (any instance)
Ids == {"a", "b"}              \* identities (client IPs)
DefaultRPM == 2                \* config.DefaultRPM of the model
VIPRPM == 3                    \* config.VIPRPM of the model
MaxBanDuration == 40           \* the positive config.BanDuration of the model
TickSeconds == 20              \* seconds that pass in one step of the clock

\* ------------------------------------------------------- program constants
WindowSeconds == 60            \* ARGV[2] handed to the script
MaxInt == 2147483647           \* math.MaxInt (of a 32-bit build; 2^63-1 on 64 bits)

\* cache keys: services.BuildKey and services.BuildListKey, a key being the
\* sequence of the text fragments joined by ":"
BuildKey(prefix, id) == <<prefix, id>>
BuildListKey(prefix, filters) == <<prefix, "list">> \o filters
CacheKeys == {BuildKey("order", "1"), BuildListKey("order", <<"not found">>)}
OrderKey == BuildKey("order", "1")
CourierKey == BuildKey("courier", "1")
EntityKeys == {OrderKey, CourierKey}       \* the keys the business handlers use
Shapes == {"object", "array"}              \* what a stored JSON text decodes into
Values == {"v1", "v2"}                     \* the values a caller caches
NoEntry == [shape |-> "nil", val |-> "nil", ttl |-> -2]   \* a cache key the store does not hold
NoValue == "zero"                          \* the target a Get has not filled
DefaultTTL == 300                          \* CACHE_DEFAULT_TTL, seconds
HotDataTTL == 60                           \* CACHE_HOT_DATA_TTL, seconds
CacheTickSeconds == 150                    \* the time one CacheTick lets pass
MaxGets == 3                               \* gets counted as hit or miss in a run
MaxEvictions == 3                          \* evictions counted in a run
MaxKeys == 2                               \* keys of one Delete call
NoCres == [op |-> "none", key |-> <<>>, found |-> FALSE, err |-> <<>>]
NoWarm == [active |-> FALSE]               \* no WarmupCache call is running
NoHttp == [stage |-> "idle", served |-> 0, status |-> 0, retryAfter |-> <<>>]
NoReq == [op |-> "none", pc |-> "idle", found |-> FALSE, loaded |-> "zero",
          status |-> 0, trace |-> <<>>, changed |-> {}, deleted |-> {}]

Absent == [val |-> 0, ttl |-> -2]          \* a counter key the store does not hold
NoBan == [val |-> "nil", ttl |-> -2]       \* a ban key the store does not hold
None == <<>>                               \* an unset value (zero time.Time, no retryAfter yet); a set one is <<x>>
NoActor == "nobody"

\* models.CourierStatus, models.OrderStatus: the values AssignOrderToCourier uses
CourierStatusAvailable == "available"
CourierStatusBusy == "busy"
OrderStatusCreated == "created"
OrderStatusAccepted == "accepted"

OrderIds == {"o1", "o2"}       \* the orders rows
CourierIds == {"c1"}           \* the couriers rows

\* no transaction yet: position, arguments, rows updated and locked, outcome
NoTx == [pc |-> "idle", order |-> "o1", courier |-> "c1", locked |-> {},
         result |-> "none", err |-> ""]

\* no Get yet: position, what the store answered, Gets returned without error
NoGet == [pc |-> "idle", hit |-> 0, miss |-> 0, reg |-> None, returned |-> 0, last |-> "none"]

VARIABLES
    actors,       \* scenario: the handlers that issue calls
    clients,      \* scenario: the identities that send requests
    track,        \* scenario: the pre/clean history of each call is recorded
    enabled,      \* config.Enabled of the instance each handler runs in
    banDuration,  \* config.BanDuration, seconds
    cnt,          \* store: rate_limit:ip:<id>, Absent or [val, ttl]
    ban,          \* store: rate_limit:ban:<id>, NoBan or [val, ttl]
    up,           \* the store answers commands
    pc,           \* position of each handler
    call,         \* [op, ip, vip] of the call a handler runs (or ran last)
    ctxDone,      \* the call's context has been cancelled
    cur,          \* local: currentCount (CheckLimit) / count (GetStatus)
    res,          \* the result the handler's last call returned
    admitted,     \* history: calls the script admitted in the life of the counter key
    nth,          \* history: position of the call among the attempts of its window
    lastRetry,    \* history: last retryAfter returned while the Ban Record exists
    pre,          \* history: <<counter, ban>> of the identity when the call began
    clean,        \* history: nobody else changed the identity's keys since
    anyOk,        \* history: some store command of the call was answered
    cacheEnabled, \* CacheConfig.Enabled
    cacheStore,   \* store: the cache entries, NoEntry or [type, ttl]
    hits,         \* CacheService.hits
    misses,       \* CacheService.misses
    evictions,    \* CacheService.evictions
    cres,         \* what the last cache operation returned
    warm,         \* the WarmupCache call in progress: its loaders and its loop
    http,         \* the request each handler has in RateLimitMiddleware
    db,           \* relational store: the row of each cached entity
    hs,           \* the request each business handler serves
    couriers,     \* relational store: committed status of each couriers row
    orders,       \* relational store: committed [status, courier_id] of each orders row
    tx,           \* the AssignOrderToCourier transaction each handler runs
    cg            \* the CacheService.Get call each goroutine runs

cacheVars == <<cacheEnabled, cacheStore, hits, misses, evictions, cres, warm>>

vars == <<actors, clients, track, enabled, banDuration, cnt, ban, up, pc, call, ctxDone, cur, res,
          admitted, nth, lastRetry, pre, clean, anyOk, cacheVars, http, db, hs,
          couriers, orders, tx, cg>>

\* the scenario, the configuration and the cache: what no step of the rate
\* limiter changes
appVars == <<db, hs, couriers, orders, tx, cg>>
config == <<actors, clients, track, enabled, banDuration, cacheVars, http, appVars>>

\* ------------------------------------------------------------ store client
\* go-redis Set(ctx, key, value, expiration): an expiration that is not
\* positive stores the key without expiry (TTL -1).
RedisSet(v, seconds) == [val |-> v, ttl |-> IF seconds > 0 THEN seconds ELSE -1]

\* TTL key: -2 for a missing key, -1 for a key without expiry, else seconds.
RedisTTL(k) == k.ttl

\* int(ttl.Seconds()) of the Duration go-redis returns: -1ns and -2ns
\* truncate to 0.
TTLSeconds(k) == IF RedisTTL(k) < 0 THEN 0 ELSE RedisTTL(k)

\* ------------------------------------------------------------- rateLimitLuaScript
\* The script with INCR before the comparison: the counter is written also
\* when the request is rejected.
LuaScriptIncrFirst(c, limit, ttl) ==
    LET current == (IF c = Absent THEN 0 ELSE c.val) + 1
    IN  [cnt |-> [val |-> current, ttl |-> ttl],
         ret |-> <<IF current > limit THEN 0 ELSE 1, current, limit>>]

\* The script with the comparison off by one.
LuaScriptOffByOne(c, limit, ttl) ==
    LET current == (IF c = Absent THEN 0 ELSE c.val) + 1
    IN  IF current > limit + 1
        THEN [cnt |-> c, ret |-> <<0, current, limit>>]
        ELSE [cnt |-> [val |-> current, ttl |-> ttl], ret |-> <<1, current, limit>>]

\* The script with SET before the increment: the key keeps the old count.
LuaScriptStoreFirst(c, limit, ttl) ==
    LET old == IF c = Absent THEN 0 ELSE c.val
        current == old + 1
    IN  IF current > limit
        THEN [cnt |-> c, ret |-> <<0, current, limit>>]
        ELSE [cnt |-> [val |-> old, ttl |-> ttl], ret |-> <<1, current, limit>>]

LuaScript(c, limit, ttl) ==
    LET current == (IF c = Absent THEN 0 ELSE c.val) + 1
    IN  IF current > limit
        THEN [cnt |-> c, ret |-> <<0, current, limit>>]
        ELSE [cnt |-> [val |-> current, ttl |-> ttl], ret |-> <<1, current, limit>>]

\* -------------------------------------------------------------- results
NoRes == [kind |-> "none", allowed |-> FALSE, remaining |-> 0, limit |-> 0,
          retryAfter |-> 0, resetIn |-> None, err |-> FALSE]

Limit(v) == IF v THEN VIPRPM ELSE DefaultRPM

DisabledResult ==
    [kind |-> "disabled", allowed |-> TRUE, remaining |-> MaxInt, limit |-> MaxInt,
     retryAfter |-> 0, resetIn |-> None, err |-> FALSE]

BannedResult(limit, ttl) ==
    [kind |-> "banned", allowed |-> FALSE, remaining |-> 0, limit |-> limit,
     retryAfter |-> ttl, resetIn |-> None, err |-> FALSE]

\* A store error that rejects the request instead of letting it pass.
FailClosed(limit) ==
    [kind |-> "failopen", allowed |-> FALSE, remaining |-> 0, limit |-> limit,
     retryAfter |-> 0, resetIn |-> None, err |-> FALSE]

FailOpen(limit) ==
    [kind |-> "failopen", allowed |-> TRUE, remaining |-> limit, limit |-> limit,
     retryAfter |-> 0, resetIn |-> None, err |-> FALSE]

RejectedResult(limit) ==
    [kind |-> "rejected", allowed |-> FALSE, remaining |-> 0, limit |-> limit,
     retryAfter |-> banDuration, resetIn |-> None, err |-> FALSE]

\* remaining computed one too low.
AdmittedResultOffByOne(limit, currentCount, ttl) ==
    [kind |-> "admitted", allowed |-> TRUE, remaining |-> limit - currentCount - 1,
     limit |-> limit, retryAfter |-> 0, resetIn |-> <<ttl>>, err |-> FALSE]

AdmittedResult(limit, currentCount, ttl) ==
    [kind |-> "admitted", allowed |-> TRUE, remaining |-> limit - currentCount,
     limit |-> limit, retryAfter |-> 0, resetIn |-> <<ttl>>, err |-> FALSE]

\* ------------------------------------------------------------- bookkeeping
StoreOk(p) == up /\ ~ctxDone[p]

\* the keys of the identities other calls work on stayed as they were
CleanAfter(actor) ==
    [q \in Procs |->
        IF q = actor \/ ~track THEN clean[q]
        ELSE clean[q] /\ cnt'[call[q].ip] = cnt[call[q].ip]
                      /\ ban'[call[q].ip] = ban[call[q].ip]]

AdmittedAfter(id) ==
    [i \in Ids |-> IF cnt'[i] = Absent THEN 0
                   ELSE IF i = id THEN admitted[i] + 1 ELSE admitted[i]]

RetryAfter(id, r) ==
    [i \in Ids |-> IF ban'[i] = NoBan THEN None
                   ELSE IF i = id THEN <<r>> ELSE lastRetry[i]]

Answered(p) == [anyOk EXCEPT ![p] = @ \/ StoreOk(p)]

\* ------------------------------------------------------------------ Init
InitWith(A, C, t) ==
    /\ actors = A
    /\ clients = C
    /\ track = t
    /\ enabled \in [Procs -> BOOLEAN]
    /\ banDuration \in {0, MaxBanDuration}
    /\ cnt = [i \in Ids |-> Absent]
    /\ ban = [i \in Ids |-> NoBan]
    /\ up = TRUE
    /\ pc = [p \in Procs |-> "idle"]
    /\ call = [p \in Procs |-> [op |-> "none", ip |-> "a", vip |-> FALSE]]
    /\ ctxDone = [p \in Procs |-> FALSE]
    /\ cur = [p \in Procs |-> 0]
    /\ res = [p \in Procs |-> NoRes]
    /\ admitted = [i \in Ids |-> 0]
    /\ nth = [p \in Procs |-> 0]
    /\ lastRetry = [i \in Ids |-> None]
    /\ pre = [p \in Procs |-> <<Absent, NoBan, {}>>]
    /\ clean = [p \in Procs |-> TRUE]
    /\ anyOk = [p \in Procs |-> FALSE]
    /\ http = [p \in Procs |-> NoHttp]
    /\ db = [k \in EntityKeys |-> "v1"]
    /\ hs = [p \in Procs |-> NoReq]
    /\ couriers = [c \in CourierIds |-> CourierStatusAvailable]
    /\ orders = [o \in OrderIds |-> [status |-> OrderStatusCreated, courier_id |-> None]]
    /\ tx = [p \in Procs |-> NoTx]
    /\ cg = [p \in Procs |-> NoGet]

\* the cache service right after NewCacheService, caching enabled
CacheIdle ==
    /\ cacheEnabled = TRUE
    /\ cacheStore = [k \in CacheKeys |-> NoEntry]
    /\ hits = 0
    /\ misses = 0
    /\ evictions = 0
    /\ cres = NoCres
    /\ warm = NoWarm

\* two handlers race on one identity; the store is reachable
Init == InitWith(Procs, {"a"}, FALSE) /\ CacheIdle

\* one handler, one identity; the store may fail and calls may be cancelled
InitFail == InitWith({"p1"}, {"a"}, TRUE) /\ CacheIdle

\* one handler serves two identities on a reachable store
InitIds == InitWith({"p1"}, Ids, TRUE) /\ CacheIdle

\* the other handlers that are inside a call on the identity
Running(p, i) == {q \in Procs \ {p} : pc[q] # "idle" /\ call[q].ip = i}

\* ------------------------------------------------------------ CheckLimit
\* entry of a call: the locals of the previous call are gone
Enter(p, o, i, v) ==
    /\ pc[p] = "idle"
    /\ p \in actors
    /\ i \in clients
    /\ call' = [call EXCEPT ![p] = [op |-> o, ip |-> i, vip |-> v]]
    /\ ctxDone' = [ctxDone EXCEPT ![p] = FALSE]
    /\ cur' = [cur EXCEPT ![p] = 0]
    /\ nth' = [nth EXCEPT ![p] = 0]
    /\ pre' = IF track THEN [pre EXCEPT ![p] = <<cnt[i], ban[i], Running(p, i)>>] ELSE pre
    /\ clean' = [clean EXCEPT ![p] = TRUE]
    /\ anyOk' = [anyOk EXCEPT ![p] = FALSE]
    /\ UNCHANGED <<actors, clients, track, enabled, banDuration, cacheVars, appVars,
                   cnt, ban, up, admitted, lastRetry>>

\* CheckLimit(ctx, ip, isVIP) is entered: a disabled service returns at once
CheckLimitCall(p, i, v) ==
    /\ Enter(p, "check", i, v)
    /\ IF ~enabled[p]
       THEN /\ res' = [res EXCEPT ![p] = DisabledResult]
            /\ pc' = pc
       ELSE /\ res' = [res EXCEPT ![p] = NoRes]
            /\ pc' = [pc EXCEPT ![p] = "c_ban_get"]

\* the entry of CheckLimit without the test of config.Enabled
CheckLimitBeginBanFirst(p) ==
    \E i \in Ids, v \in BOOLEAN :
        /\ Enter(p, "check", i, v)
        /\ res' = [res EXCEPT ![p] = NoRes]
        /\ pc' = [pc EXCEPT ![p] = "c_ban_get"]
        /\ http' = http

\* a call of CheckLimit made outside the middleware
CheckLimitBegin(p) ==
    \E i \in Ids, v \in BOOLEAN :
        /\ CheckLimitCall(p, i, v)
        /\ http' = http

\* The ban lookup made only for an identity whose counter key exists.
CheckLimitBanGetIfCounter(p) ==
    /\ pc[p] = "c_ban_get"
    /\ LET b == ban[call[p].ip]
       IN  pc' = [pc EXCEPT ![p] =
                    IF StoreOk(p) /\ b # NoBan /\ b.val # "" /\ cnt[call[p].ip] # Absent
                    THEN "c_ban_ttl" ELSE "c_eval"]
    /\ anyOk' = Answered(p)
    /\ UNCHANGED <<config, cnt, ban, up, call, ctxDone, cur, res,
                   admitted, nth, lastRetry, pre, clean>>

\* banned, err := client.Get(ctx, banKey).Result()
CheckLimitBanGet(p) ==
    /\ pc[p] = "c_ban_get"
    /\ LET b == ban[call[p].ip]
       IN  pc' = [pc EXCEPT ![p] =
                    IF StoreOk(p) /\ b # NoBan /\ b.val # "" THEN "c_ban_ttl" ELSE "c_eval"]
    /\ anyOk' = Answered(p)
    /\ UNCHANGED <<config, cnt, ban, up, call, ctxDone, cur, res,
                   admitted, nth, lastRetry, pre, clean>>

\* ttl, _ := client.TTL(ctx, banKey).Result(); return banned
CheckLimitBanTTL(p) ==
    /\ pc[p] = "c_ban_ttl"
    /\ LET ttl == IF StoreOk(p) THEN TTLSeconds(ban[call[p].ip]) ELSE 0
       IN  /\ ban' = ban
           /\ res' = [res EXCEPT ![p] = BannedResult(Limit(call[p].vip), ttl)]
           /\ lastRetry' = RetryAfter(call[p].ip, ttl)
    /\ pc' = [pc EXCEPT ![p] = "idle"]
    /\ anyOk' = Answered(p)
    /\ UNCHANGED <<config, cnt, up, call, ctxDone, cur, admitted, nth, pre, clean>>

\* an Eval that starts the call over when the store does not answer
CheckLimitEvalRetry(p) ==
    /\ pc[p] = "c_eval"
    /\ LET id == call[p].ip
           limit == Limit(call[p].vip)
           r == LuaScript(cnt[id], limit, WindowSeconds)
       IN  IF ~StoreOk(p)
           THEN /\ res' = res
                /\ pc' = [pc EXCEPT ![p] = "c_ban_get"]
                /\ UNCHANGED <<cnt, cur, admitted, nth>>
           ELSE /\ cnt' = [cnt EXCEPT ![id] = r.cnt]
                /\ cur' = [cur EXCEPT ![p] = r.ret[2]]
                /\ nth' = [nth EXCEPT ![p] = admitted[id] + 1]
                /\ admitted' = AdmittedAfter(IF r.ret[1] = 1 THEN id ELSE NoActor)
                /\ pc' = [pc EXCEPT ![p] = IF r.ret[1] = 1 THEN "c_cnt_ttl" ELSE "c_ban_set"]
                /\ res' = res
    /\ anyOk' = Answered(p)
    /\ UNCHANGED <<config, ban, up, call, ctxDone, lastRetry, pre>>
    /\ clean' = CleanAfter(p)

\* result, err := client.Eval(ctx, rateLimitLuaScript, []string{key}, limit, 60)
CheckLimitEval(p) ==
    /\ pc[p] = "c_eval"
    /\ LET id == call[p].ip
           limit == Limit(call[p].vip)
           r == LuaScript(cnt[id], limit, WindowSeconds)
       IN  IF ~StoreOk(p)
           THEN /\ res' = [res EXCEPT ![p] = FailOpen(limit)]
                /\ pc' = [pc EXCEPT ![p] = "idle"]
                /\ UNCHANGED <<cnt, cur, admitted, nth>>
           ELSE /\ cnt' = [cnt EXCEPT ![id] = r.cnt]
                /\ cur' = [cur EXCEPT ![p] = r.ret[2]]
                /\ nth' = [nth EXCEPT ![p] = admitted[id] + 1]
                /\ admitted' = AdmittedAfter(IF r.ret[1] = 1 THEN id ELSE NoActor)
                /\ pc' = [pc EXCEPT ![p] = IF r.ret[1] = 1 THEN "c_cnt_ttl" ELSE "c_ban_set"]
                /\ res' = res
    /\ anyOk' = Answered(p)
    /\ UNCHANGED <<config, ban, up, call, ctxDone, lastRetry, pre>>
    /\ clean' = CleanAfter(p)

\* What Eval can hand back without an error: a value that is a list or not,
\* with its elements. ret is the reply of the script.
Replies(ret) ==
    {[slice |-> FALSE, elems |-> <<>>], [slice |-> FALSE, elems |-> ret]}
        \cup {[slice |-> TRUE, elems |-> e] :
                  e \in {<<>>, <<ret[1]>>, <<ret[1], ret[2]>>, ret, ret \o <<0>>}}

\* resultSlice, ok := result.([]interface{}); ok && len(resultSlice) == 3
WellFormed(reply) == reply.slice /\ Len(reply.elems) = 3

\* a reply of unexpected shape taken as a rejection by the script
CheckLimitEvalMalformedAsReject(p) ==
    /\ pc[p] = "c_eval"
    /\ StoreOk(p)
    /\ LET id == call[p].ip
           r == LuaScript(cnt[id], Limit(call[p].vip), WindowSeconds)
       IN  /\ \E reply \in Replies(r.ret) : ~WellFormed(reply)
           /\ cnt' = [cnt EXCEPT ![id] = r.cnt]
           /\ admitted' = AdmittedAfter(IF r.ret[1] = 1 THEN id ELSE NoActor)
    /\ pc' = [pc EXCEPT ![p] = "c_ban_set"]
    /\ anyOk' = Answered(p)
    /\ UNCHANGED <<config, ban, up, call, ctxDone, cur, res, nth, lastRetry, pre>>
    /\ clean' = CleanAfter(p)

\* Eval answers without an error, but the value is not a list of three
\* elements: the call is let through. The store may or may not have run the
\* script before the reply took that shape.
CheckLimitEvalMalformed(p) ==
    /\ pc[p] = "c_eval"
    /\ StoreOk(p)
    /\ LET id == call[p].ip
           limit == Limit(call[p].vip)
           r == LuaScript(cnt[id], limit, WindowSeconds)
       IN  /\ \E reply \in Replies(r.ret) : ~WellFormed(reply)
           /\ \E ran \in BOOLEAN :
                /\ cnt' = IF ran THEN [cnt EXCEPT ![id] = r.cnt] ELSE cnt
                /\ admitted' = AdmittedAfter(IF ran /\ r.ret[1] = 1 THEN id ELSE NoActor)
           /\ res' = [res EXCEPT ![p] = FailOpen(limit)]
    /\ pc' = [pc EXCEPT ![p] = "idle"]
    /\ anyOk' = Answered(p)
    /\ UNCHANGED <<config, ban, up, call, ctxDone, cur, nth, lastRetry, pre>>
    /\ clean' = CleanAfter(p)

\* client.Set(ctx, banKey, "1", BanDuration seconds); return rejected
CheckLimitBanSet(p) ==
    /\ pc[p] = "c_ban_set"
    /\ LET id == call[p].ip
       IN  /\ ban' = IF StoreOk(p)
                     THEN [ban EXCEPT ![id] = RedisSet("1", banDuration)]
                     ELSE ban
           /\ res' = [res EXCEPT ![p] = RejectedResult(Limit(call[p].vip))]
           /\ lastRetry' = RetryAfter(id, banDuration)
    /\ pc' = [pc EXCEPT ![p] = "idle"]
    /\ anyOk' = Answered(p)
    /\ UNCHANGED <<config, cnt, up, call, ctxDone, cur, admitted, nth, pre>>
    /\ clean' = CleanAfter(p)

\* ttl, _ := client.TTL(ctx, key).Result(); return admitted
CheckLimitCntTTL(p) ==
    /\ pc[p] = "c_cnt_ttl"
    /\ LET c == cnt[call[p].ip]
           ttl == IF StoreOk(p) THEN TTLSeconds(c) ELSE 0
       IN  res' = [res EXCEPT ![p] = AdmittedResult(Limit(call[p].vip), cur[p], ttl)]
    /\ pc' = [pc EXCEPT ![p] = "idle"]
    /\ anyOk' = Answered(p)
    /\ UNCHANGED <<config, cnt, ban, up, call, ctxDone, cur,
                   admitted, nth, lastRetry, pre, clean>>

CheckLimit(p) ==
    \/ CheckLimitBegin(p)
    \/ CheckLimitBanGet(p)
    \/ CheckLimitBanTTL(p)
    \/ CheckLimitEval(p)
    \/ CheckLimitBanSet(p)
    \/ CheckLimitCntTTL(p)

\* ------------------------------------------------------ RateLimitMiddleware
\* the handler returned by RateLimitMiddleware receives a request: it calls
\* CheckLimit(r.Context(), getClientIP(r), false) before anything else
MwBegin(p) ==
    \E i \in Ids :
        /\ http[p].stage \notin {"checking", "status"}
        /\ CheckLimitCall(p, i, FALSE)
        /\ http' = [http EXCEPT ![p] = [NoHttp EXCEPT !.stage = "checking"]]

\* the rejection that writes the 429 and then falls through to next
MwRespondNoReturn(p) ==
    /\ http[p].stage = "checking"
    /\ pc[p] = "idle"
    /\ http' = [http EXCEPT ![p] =
          IF res[p].err
          THEN [stage |-> "done", served |-> 1, status |-> 0, retryAfter |-> <<>>]
          ELSE IF ~res[p].allowed
          THEN [stage |-> "done", served |-> 1, status |-> 429,
                retryAfter |-> <<res[p].retryAfter>>]
          ELSE [stage |-> "done", served |-> 1, status |-> 0, retryAfter |-> <<>>]]
    /\ UNCHANGED <<actors, clients, track, enabled, banDuration, cacheVars, appVars,
                   cnt, ban, up, pc, call, ctxDone, cur, res,
                   admitted, nth, lastRetry, pre, clean, anyOk>>

\* CheckLimit has returned: an error passes the request on, a rejection is
\* answered with 429 and Retry-After, anything else reaches next.ServeHTTP.
\* status 0 is a response the middleware left to the wrapped handler.
MwRespond(p) ==
    /\ http[p].stage = "checking"
    /\ pc[p] = "idle"
    /\ http' = [http EXCEPT ![p] =
          IF res[p].err
          THEN [stage |-> "done", served |-> 1, status |-> 0, retryAfter |-> <<>>]
          ELSE IF ~res[p].allowed
          THEN [stage |-> "done", served |-> 0, status |-> 429,
                retryAfter |-> <<res[p].retryAfter>>]
          ELSE [stage |-> "done", served |-> 1, status |-> 0, retryAfter |-> <<>>]]
    /\ UNCHANGED <<actors, clients, track, enabled, banDuration, cacheVars, appVars,
                   cnt, ban, up, pc, call, ctxDone, cur, res,
                   admitted, nth, lastRetry, pre, clean, anyOk>>

RateLimitMiddleware(p) ==
    \/ MwBegin(p)
    \/ CheckLimitBanGet(p)
    \/ CheckLimitBanTTL(p)
    \/ CheckLimitEval(p)
    \/ CheckLimitBanSet(p)
    \/ CheckLimitCntTTL(p)
    \/ MwRespond(p)

\* -------------------------------------------------------------- GetStatus
\* The read of the counter done with the script of CheckLimit.
StatusCounterReadViaScript(c, limit) ==
    LET r == LuaScript(c, limit, WindowSeconds)
    IN  [cnt |-> r.cnt, count |-> r.ret[2]]

\* count, err := client.Get(ctx, key).Int(): a plain GET, the key stays as it is
StatusCounterRead(c, limit) ==
    [cnt |-> c, count |-> IF c = Absent THEN 0 ELSE c.val]

\* the status without the floor of remaining
StatusResultNoFloor(limit, count, ttl) ==
    [kind |-> "status", allowed |-> count < limit,
     remaining |-> limit - count,
     limit |-> limit, retryAfter |-> 0,
     resetIn |-> IF ttl < 0 THEN None ELSE <<ttl>>, err |-> FALSE]

StatusResult(limit, count, ttl) ==
    [kind |-> "status", allowed |-> count < limit,
     remaining |-> IF limit - count < 0 THEN 0 ELSE limit - count,
     limit |-> limit, retryAfter |-> 0,
     resetIn |-> IF ttl < 0 THEN None ELSE <<ttl>>, err |-> FALSE]

\* GetStatus(ctx, ip, isVIP) is entered: a disabled service returns at once
GetStatusCall(p, i, v) ==
    /\ Enter(p, "status", i, v)
    /\ IF ~enabled[p]
       THEN /\ res' = [res EXCEPT ![p] = DisabledResult]
            /\ pc' = pc
       ELSE /\ res' = [res EXCEPT ![p] = NoRes]
            /\ pc' = [pc EXCEPT ![p] = "s_ban_get"]

GetStatusBegin(p) ==
    \E i \in Ids, v \in BOOLEAN :
        /\ GetStatusCall(p, i, v)
        /\ http' = http

\* GetStatus without the ban lookup: the counter is read at once
GetStatusBanGetSkipped(p) ==
    /\ pc[p] = "s_ban_get"
    /\ pc' = [pc EXCEPT ![p] = "s_cnt_get"]
    /\ anyOk' = Answered(p)
    /\ UNCHANGED <<config, cnt, ban, up, call, ctxDone, cur, res,
                   admitted, nth, lastRetry, pre, clean>>

\* banned, err := client.Get(ctx, banKey).Result(); err == nil && banned != ""
GetStatusBanGet(p) ==
    /\ pc[p] = "s_ban_get"
    /\ LET b == ban[call[p].ip]
       IN  pc' = [pc EXCEPT ![p] =
                    IF StoreOk(p) /\ b # NoBan /\ b.val # "" THEN "s_ban_ttl" ELSE "s_cnt_get"]
    /\ anyOk' = Answered(p)
    /\ UNCHANGED <<config, cnt, ban, up, call, ctxDone, cur, res,
                   admitted, nth, lastRetry, pre, clean>>

GetStatusBanTTL(p) ==
    /\ pc[p] = "s_ban_ttl"
    /\ LET ttl == IF StoreOk(p) THEN TTLSeconds(ban[call[p].ip]) ELSE 0
       IN  res' = [res EXCEPT ![p] =
                     [BannedResult(Limit(call[p].vip), ttl) EXCEPT !.kind = "status_banned"]]
    /\ pc' = [pc EXCEPT ![p] = "idle"]
    /\ anyOk' = Answered(p)
    /\ UNCHANGED <<config, cnt, ban, up, call, ctxDone, cur,
                   admitted, nth, lastRetry, pre, clean>>

\* the counter read that takes every key for a missing one
GetStatusCntGetZero(p) ==
    /\ pc[p] = "s_cnt_get"
    /\ cur' = [cur EXCEPT ![p] = 0]
    /\ pc' = [pc EXCEPT ![p] = "s_cnt_ttl"]
    /\ anyOk' = Answered(p)
    /\ UNCHANGED <<config, cnt, ban, up, call, ctxDone, res, nth, lastRetry, pre>>
    /\ admitted' = AdmittedAfter(NoActor)
    /\ clean' = CleanAfter(p)

\* count, err := client.Get(ctx, key).Int(); an error counts as 0
GetStatusCntGet(p) ==
    /\ pc[p] = "s_cnt_get"
    /\ LET id == call[p].ip
           rd == StatusCounterRead(cnt[id], Limit(call[p].vip))
       IN  IF StoreOk(p)
           THEN /\ cnt' = [cnt EXCEPT ![id] = rd.cnt]
                /\ cur' = [cur EXCEPT ![p] = rd.count]
           ELSE /\ cnt' = cnt
                /\ cur' = [cur EXCEPT ![p] = 0]
    /\ pc' = [pc EXCEPT ![p] = "s_cnt_ttl"]
    /\ anyOk' = Answered(p)
    /\ UNCHANGED <<config, ban, up, call, ctxDone, res, nth, lastRetry, pre>>
    /\ admitted' = AdmittedAfter(NoActor)
    /\ clean' = CleanAfter(p)

GetStatusCntTTL(p) ==
    /\ pc[p] = "s_cnt_ttl"
    /\ LET ttl == IF StoreOk(p) THEN RedisTTL(cnt[call[p].ip]) ELSE 0
       IN  res' = [res EXCEPT ![p] = StatusResult(Limit(call[p].vip), cur[p], ttl)]
    /\ pc' = [pc EXCEPT ![p] = "idle"]
    /\ anyOk' = Answered(p)
    /\ UNCHANGED <<config, cnt, ban, up, call, ctxDone, cur,
                   admitted, nth, lastRetry, pre, clean>>

\* what GetStatus returns when its commands run one after the other on a
\* reachable store holding counter c and ban b, for a service that is enabled
\* or not
GetStatusSeq(en, c, b, v) ==
    IF ~en THEN DisabledResult
    ELSE IF b # NoBan /\ b.val # ""
    THEN [BannedResult(Limit(v), TTLSeconds(b)) EXCEPT !.kind = "status_banned"]
    ELSE StatusResult(Limit(v), StatusCounterRead(c, Limit(v)).count, RedisTTL(c))

GetStatus(p) ==
    \/ GetStatusBegin(p)
    \/ GetStatusBanGet(p)
    \/ GetStatusBanTTL(p)
    \/ GetStatusCntGet(p)
    \/ GetStatusCntTTL(p)

\* ------------------------------------------- RateLimitHandler.GetStatus
\* the status endpoint receives a request: it calls
\* rateLimiter.GetStatus(r.Context(), getClientIP(r), false)
EndpointBegin(p) ==
    \E i \in Ids :
        /\ http[p].stage \notin {"checking", "status"}
        /\ GetStatusCall(p, i, FALSE)
        /\ http' = [http EXCEPT ![p] = [NoHttp EXCEPT !.stage = "status"]]

\* GetStatus has returned: an error is answered with 500, anything else with
\* the JSON body, whose is_banned is !result.Allowed
EndpointRespond(p) ==
    /\ http[p].stage = "status"
    /\ pc[p] = "idle"
    /\ http' = [http EXCEPT ![p] =
          IF res[p].err
          THEN [stage |-> "reported", served |-> 0, status |-> 500, retryAfter |-> <<>>,
                limit |-> 0, remaining |-> 0, isBanned |-> FALSE]
          ELSE [stage |-> "reported", served |-> 0, status |-> 200,
                retryAfter |-> IF ~res[p].allowed THEN <<res[p].retryAfter>> ELSE <<>>,
                limit |-> res[p].limit, remaining |-> res[p].remaining,
                isBanned |-> ~res[p].allowed]]
    /\ UNCHANGED <<actors, clients, track, enabled, banDuration, cacheVars, appVars,
                   cnt, ban, up, pc, call, ctxDone, cur, res,
                   admitted, nth, lastRetry, pre, clean, anyOk>>

StatusEndpoint(p) ==
    \/ EndpointBegin(p)
    \/ GetStatusBanGet(p)
    \/ GetStatusBanTTL(p)
    \/ GetStatusCntGet(p)
    \/ GetStatusCntTTL(p)
    \/ EndpointRespond(p)

\* ------------------------------------------------------------- ResetLimit
ResetResult(failed) ==
    [kind |-> "reset", allowed |-> FALSE, remaining |-> 0, limit |-> 0,
     retryAfter |-> 0, resetIn |-> None, err |-> failed]

ResetLimitBegin(p) ==
    \E i \in Ids :
        /\ Enter(p, "reset", i, FALSE)
        /\ http' = http
        /\ res' = [res EXCEPT ![p] = NoRes]
        /\ pc' = [pc EXCEPT ![p] = "r_exec"]

\* a reset that clears the counters of every identity
ResetLimitDelAll(p) ==
    /\ pc[p] = "r_exec"
    /\ cnt' = [i \in Ids |-> Absent]
    /\ pc' = [pc EXCEPT ![p] = "r_del_ban"]
    /\ anyOk' = Answered(p)
    /\ UNCHANGED <<config, ban, up, call, ctxDone, cur, res, nth, lastRetry, pre>>
    /\ admitted' = AdmittedAfter(NoActor)
    /\ clean' = CleanAfter(p)

\* pipe.Exec: the two DEL commands reach the store in one round trip; the
\* store runs them in order, and commands of other clients may run between.
ResetLimitDelCounter(p) ==
    /\ pc[p] = "r_exec"
    /\ IF StoreOk(p)
       THEN /\ cnt' = [cnt EXCEPT ![call[p].ip] = Absent]
            /\ pc' = [pc EXCEPT ![p] = "r_del_ban"]
            /\ res' = res
       ELSE /\ cnt' = cnt
            /\ pc' = [pc EXCEPT ![p] = "idle"]
            /\ res' = [res EXCEPT ![p] = ResetResult(TRUE)]
    /\ anyOk' = Answered(p)
    /\ UNCHANGED <<config, ban, up, call, ctxDone, cur, nth, lastRetry, pre>>
    /\ admitted' = AdmittedAfter(NoActor)
    /\ clean' = CleanAfter(p)

ResetLimitDelBan(p) ==
    /\ pc[p] = "r_del_ban"
    /\ ban' = [ban EXCEPT ![call[p].ip] = NoBan]
    /\ pc' = [pc EXCEPT ![p] = "idle"]
    /\ res' = [res EXCEPT ![p] = ResetResult(FALSE)]
    /\ UNCHANGED <<config, cnt, up, call, ctxDone, cur, admitted, nth, pre, anyOk>>
    /\ lastRetry' = RetryAfter(NoActor, None)
    /\ clean' = CleanAfter(p)

ResetLimit(p) ==
    \/ ResetLimitBegin(p)
    \/ ResetLimitDelCounter(p)
    \/ ResetLimitDelBan(p)

\* ------------------------------------------------------------------ store
\* TickSeconds pass: every key with an expiry loses them, and a key whose
\* time to live is used up is removed by the store.
Expire(k, gone) ==
    IF k.ttl < 0 THEN k
    ELSE IF k.ttl - TickSeconds <= 0 THEN gone
    ELSE [k EXCEPT !.ttl = @ - TickSeconds]

Tick ==
    /\ \E i \in Ids : (cnt[i] # Absent /\ cnt[i].ttl > 0) \/ (ban[i] # NoBan /\ ban[i].ttl > 0)
    /\ cnt' = [i \in Ids |-> Expire(cnt[i], Absent)]
    /\ ban' = [i \in Ids |-> Expire(ban[i], NoBan)]
    /\ UNCHANGED <<config, up, pc, call, ctxDone, cur, res, nth, pre, anyOk>>
    /\ admitted' = AdmittedAfter(NoActor)
    /\ lastRetry' = RetryAfter(NoActor, None)
    /\ clean' = CleanAfter(NoActor)

\* the store becomes unreachable / reachable again
StoreDown ==
    /\ up
    /\ up' = FALSE
    /\ UNCHANGED <<config, cnt, ban, pc, call, ctxDone, cur, res,
                   admitted, nth, lastRetry, pre, clean, anyOk>>

StoreUp ==
    /\ ~up
    /\ up' = TRUE
    /\ UNCHANGED <<config, cnt, ban, pc, call, ctxDone, cur, res,
                   admitted, nth, lastRetry, pre, clean, anyOk>>

\* the request context of a running call is cancelled: every later store
\* command of the call returns the context's error
Cancel(p) ==
    /\ pc[p] # "idle"
    /\ ~ctxDone[p]
    /\ ctxDone' = [ctxDone EXCEPT ![p] = TRUE]
    /\ UNCHANGED <<config, cnt, ban, up, pc, call, cur, res,
                   admitted, nth, lastRetry, pre, clean, anyOk>>

\* ------------------------------------------------------------------ cache
limiterVars == <<actors, clients, track, enabled, banDuration, cnt, ban, pc, call, ctxDone,
                 cur, res, admitted, nth, lastRetry, pre, clean, anyOk, http>>

\* strings.Contains on a text kept as the sequence of its fragments
Contains(msg, fragment) == \E n \in 1..Len(msg) : msg[n] = fragment

\* the errors of redis.Client.Get, as fmt.Errorf builds them
ErrKeyNotFound(key) == <<"key">> \o key \o <<"not found">>
ErrGetFailed(key) == <<"failed to get key">> \o key \o <<"i/o timeout">>
ErrUnmarshal(key) == <<"failed to unmarshal value for key">> \o key \o <<"cannot unmarshal">>
ErrStore == <<"i/o timeout">>

\* json.Unmarshal of a stored text into the target of the caller
Decodable(shape, target) == shape = target

\* the values the callers of the scenario cache: one, or all when the run
\* follows the values
ValuesCached == IF track THEN Values ELSE {"v1"}

\* json.Marshal and client.Set: the text the store keeps, with its expiry
JsonMarshal(shape, v, ttl) == [shape |-> shape, val |-> v, ttl |-> ttl]

\* a decoding that leaves the target as it was
JsonUnmarshalZero(entry) == NoValue

\* json.Unmarshal: the value the target holds after a text was decoded into it
JsonUnmarshal(entry) == entry.val

\* redis.Client.Get: nil (the empty text) or the error
RedisGet(entry, key, target) ==
    IF ~up THEN ErrGetFailed(key)
    ELSE IF entry = NoEntry THEN ErrKeyNotFound(key)
    ELSE IF ~Decodable(entry.shape, target) THEN ErrUnmarshal(key)
    ELSE None

\* a Get that counts a hit for whatever the store answered
CacheGetOutcomeHitAlways(entry, key, target) ==
    IF ~cacheEnabled THEN [found |-> FALSE, err |-> None, hit |-> 0, miss |-> 1]
    ELSE [found |-> TRUE, err |-> None, hit |-> 1, miss |-> 0]

\* CacheService.Get: what it returns and what it adds to hits and misses
CacheGetOutcome(entry, key, target) ==
    IF ~cacheEnabled THEN [found |-> FALSE, err |-> None, hit |-> 0, miss |-> 1]
    ELSE LET err == RedisGet(entry, key, target)
         IN  IF err # None
             THEN IF Contains(err, "not found")
                  THEN [found |-> FALSE, err |-> None, hit |-> 0, miss |-> 1]
                  ELSE [found |-> FALSE, err |-> err, hit |-> 0, miss |-> 0]
             ELSE [found |-> TRUE, err |-> None, hit |-> 1, miss |-> 0]

CacheGet(key, target) ==
    LET o == CacheGetOutcome(cacheStore[key], key, target)
    IN  /\ hits + misses + o.hit + o.miss <= MaxGets
        /\ hits' = hits + o.hit
        /\ misses' = misses + o.miss
        /\ cres' = [op |-> "get", key |-> key, found |-> o.found, err |-> o.err,
                    value |-> IF o.found THEN JsonUnmarshal(cacheStore[key]) ELSE NoValue]
        /\ UNCHANGED <<limiterVars, up, warm, cacheEnabled, cacheStore, evictions>>

\* CacheService.Set(ctx, key, value, ttl) for the value v
CacheSetValue(key, shape, v, ttl) ==
    LET done(err) == [op |-> "set", key |-> key, found |-> FALSE, err |-> err,
                      shape |-> shape, value |-> v]
    IN  /\ IF ~cacheEnabled
           THEN /\ cacheStore' = cacheStore
                /\ cres' = done(None)
           ELSE IF ~up
           THEN /\ cacheStore' = cacheStore
                /\ cres' = done(ErrStore)
           ELSE /\ cacheStore' = [cacheStore EXCEPT ![key] = JsonMarshal(shape, v, ttl)]
                /\ cres' = done(None)
        /\ UNCHANGED <<limiterVars, up, warm, cacheEnabled, hits, misses, evictions>>

\* a Set that writes whether or not caching is enabled
CacheSetAlways(key, shape, ttl) ==
    /\ up
    /\ \E v \in ValuesCached :
        /\ cacheStore' = [cacheStore EXCEPT ![key] = JsonMarshal(shape, v, ttl)]
        /\ cres' = [op |-> "set", key |-> key, found |-> FALSE, err |-> None,
                    shape |-> shape, value |-> v]
    /\ UNCHANGED <<limiterVars, up, warm, cacheEnabled, hits, misses, evictions>>

\* CacheService.Set
CacheSet(key, shape, ttl) ==
    \E v \in ValuesCached : CacheSetValue(key, shape, v, ttl)

\* a Delete that counts the keys the store removed
DeleteEvictionsExisting(keys) ==
    IF ~cacheEnabled \/ ~up THEN 0
    ELSE Cardinality({k \in DOMAIN cacheStore : Contains(keys, k) /\ cacheStore[k] # NoEntry})

\* s.evictions.Add(uint64(len(keys))) after a pipeline that ran
DeleteEvictions(keys) ==
    IF ~cacheEnabled \/ ~up THEN 0 ELSE Len(keys)

\* CacheService.Delete
CacheDelete(keys) ==
    /\ evictions + DeleteEvictions(keys) <= MaxEvictions
    /\ evictions' = evictions + DeleteEvictions(keys)
    /\ cacheStore' = IF cacheEnabled /\ up
                     THEN [k \in DOMAIN cacheStore |->
                              IF Contains(keys, k) THEN NoEntry ELSE cacheStore[k]]
                     ELSE cacheStore
    /\ cres' = [op |-> "delete", key |-> <<>>, found |-> FALSE,
                keys |-> IF track THEN keys ELSE <<>>,
                err |-> IF cacheEnabled /\ ~up THEN ErrStore ELSE None]
    /\ UNCHANGED <<limiterVars, up, warm, cacheEnabled, hits, misses>>

\* CacheTickSeconds pass: the store removes the entries whose time is used up
CacheTick ==
    /\ \E k \in DOMAIN cacheStore : cacheStore[k] # NoEntry
    /\ cacheStore' = [k \in DOMAIN cacheStore |->
                         LET e == cacheStore[k]
                         IN  IF e = NoEntry THEN e
                             ELSE IF e.ttl - CacheTickSeconds <= 0 THEN NoEntry
                             ELSE [e EXCEPT !.ttl = @ - CacheTickSeconds]]
    /\ UNCHANGED <<appVars, limiterVars, up, warm, cacheEnabled, hits, misses, evictions, cres>>

\* client.DBSize: the keys the store holds, those of the rate limiter included
DBSize ==
    Cardinality({k \in DOMAIN cacheStore : cacheStore[k] # NoEntry})
        + Cardinality({i \in Ids : cnt[i] # Absent})
        + Cardinality({i \in Ids : ban[i] # NoBan})

\* the hit rate taken over the misses alone
HitRateOverMisses(h, m) == IF h + m > 0 THEN <<h * 100, m>> ELSE <<0, 1>>

\* hitRate = float64(hits) / float64(totalReqs) * 100, kept as the fraction
\* <<numerator, denominator>>; 0 when there were no requests
HitRate(h, m) == IF h + m > 0 THEN <<h * 100, h + m>> ELSE <<0, 1>>

\* a snapshot that fails when the store does not answer the key count
MetricsSnapshotOrError ==
    [hits |-> hits, misses |-> misses, evictions |-> evictions,
     totalReqs |-> hits + misses, hitRate |-> HitRate(hits, misses),
     cacheSize |-> IF up THEN DBSize ELSE 0,
     err |-> IF up THEN None ELSE ErrStore]

\* CacheService.GetMetrics: the snapshot and the error it returns
MetricsSnapshot ==
    [hits |-> hits, misses |-> misses, evictions |-> evictions,
     totalReqs |-> hits + misses, hitRate |-> HitRate(hits, misses),
     cacheSize |-> IF up THEN DBSize ELSE 0,
     err |-> None]

\* a snapshot that starts the counters over
GetMetricsAndReset ==
    /\ cres' = [op |-> "metrics", key |-> <<>>, found |-> FALSE,
                err |-> MetricsSnapshot.err, snap |-> MetricsSnapshot]
    /\ hits' = 0
    /\ misses' = 0
    /\ evictions' = 0
    /\ UNCHANGED <<appVars, limiterVars, up, warm, cacheEnabled, cacheStore>>

GetMetrics ==
    /\ cres' = [op |-> "metrics", key |-> <<>>, found |-> FALSE,
                err |-> MetricsSnapshot.err, snap |-> MetricsSnapshot]
    /\ UNCHANGED <<appVars, limiterVars, up, warm, cacheEnabled, cacheStore, hits, misses, evictions>>

\* the maps WarmupCache is called with: for each key, whether its loader
\* returns data or an error
LoaderMaps == UNION {[W -> {"ok", "fail"}] : W \in SUBSET CacheKeys}

\* the TTL of the default tier used for warmed entries
WarmupTTLDefault == DefaultTTL

\* s.Set(ctx, key, data, s.GetHotDataTTL())
WarmupTTL == HotDataTTL

\* WarmupCache is called when the application starts, before a request is
\* served. With caching disabled it logs and returns.
WarmupBegin(loaders) ==
    /\ ~warm.active
    /\ cres = NoCres
    /\ IF ~cacheEnabled
       THEN /\ warm' = warm
            /\ cres' = [op |-> "warmup", key |-> <<>>, found |-> FALSE, err |-> None,
                        loaders |-> loaders, calls |-> [k \in CacheKeys |-> 0],
                        success |-> 0, total |-> 0]
       ELSE /\ warm' = [active |-> TRUE, loaders |-> loaders, todo |-> DOMAIN loaders,
                        calls |-> [k \in CacheKeys |-> 0], success |-> 0]
            /\ cres' = cres
    /\ UNCHANGED <<appVars, limiterVars, up, cacheEnabled, cacheStore, hits, misses, evictions>>

\* a loop that gives up at the first loader or store error
WarmupEntryAbort ==
    /\ warm.active
    /\ \E key \in warm.todo :
        LET loaded == warm.loaders[key] = "ok"
            written == loaded /\ up
        IN  /\ cacheStore' = IF written
                             THEN [cacheStore EXCEPT ![key] = [shape |-> "object", val |-> "v1", ttl |-> WarmupTTL]]
                             ELSE cacheStore
            /\ warm' = [warm EXCEPT !.todo = IF written THEN @ \ {key} ELSE {},
                                    !.calls[key] = @ + 1,
                                    !.success = IF written THEN @ + 1 ELSE @]
    /\ UNCHANGED <<appVars, limiterVars, up, cacheEnabled, hits, misses, evictions, cres>>

\* one turn of the loop over the map, in the order the map yields: the loader
\* is called; on its error, or on the error of Set, the loop goes on
WarmupEntry ==
    /\ warm.active
    /\ \E key \in warm.todo :
        LET loaded == warm.loaders[key] = "ok"
            written == loaded /\ up
        IN  /\ cacheStore' = IF written
                             THEN [cacheStore EXCEPT ![key] = [shape |-> "object", val |-> "v1", ttl |-> WarmupTTL]]
                             ELSE cacheStore
            /\ warm' = [warm EXCEPT !.todo = @ \ {key},
                                    !.calls[key] = @ + 1,
                                    !.success = IF written THEN @ + 1 ELSE @]
    /\ UNCHANGED <<appVars, limiterVars, up, cacheEnabled, hits, misses, evictions, cres>>

\* the loop is over: the counts are logged and the call returns
WarmupEnd ==
    /\ warm.active
    /\ warm.todo = {}
    /\ cres' = [op |-> "warmup", key |-> <<>>, found |-> FALSE, err |-> None,
                loaders |-> warm.loaders, calls |-> warm.calls,
                success |-> warm.success, total |-> Cardinality(DOMAIN warm.loaders)]
    /\ warm' = NoWarm
    /\ UNCHANGED <<appVars, limiterVars, up, cacheEnabled, cacheStore, hits, misses, evictions>>

WarmupCache ==
    \/ \E loaders \in LoaderMaps : WarmupBegin(loaders)
    \/ WarmupEntry
    \/ WarmupEnd

KeyLists == UNION {[1..n -> CacheKeys] : n \in 0..MaxKeys}

\* requests are served once the warmup of the start has returned
NextCache ==
    \/ ~warm.active /\ UNCHANGED appVars /\ \E k \in CacheKeys, t \in Shapes : CacheGet(k, t)
    \/ ~warm.active /\ UNCHANGED appVars
           /\ \E k \in CacheKeys, sh \in Shapes, ttl \in {DefaultTTL, HotDataTTL} :
                            CacheSet(k, sh, ttl)
    \/ ~warm.active /\ UNCHANGED appVars /\ \E ks \in KeyLists : CacheDelete(ks)
    \/ ~warm.active /\ GetMetrics
    \/ WarmupCache
    \/ CacheTick
    \/ StoreDown
    \/ StoreUp

\* no rate limiter call runs; caching is enabled or disabled by configuration,
\* and the store may hold entries an earlier run of the service has written
InitCache ==
    /\ InitWith({}, {}, FALSE)
    /\ enabled = [p \in Procs |-> TRUE]
    /\ banDuration = MaxBanDuration
    /\ cacheEnabled \in BOOLEAN
    /\ cacheStore \in [CacheKeys -> {NoEntry, [shape |-> "object", val |-> "v1", ttl |-> DefaultTTL]}]
    /\ hits = 0
    /\ misses = 0
    /\ evictions = 0
    /\ cres = NoCres
    /\ warm = NoWarm

SpecCache == InitCache /\ [][NextCache]_vars

\* caching is enabled, the store is empty and the run follows the values that
\* are written and read
InitValues ==
    /\ InitWith({}, {}, TRUE)
    /\ enabled = [p \in Procs |-> TRUE]
    /\ banDuration = MaxBanDuration
    /\ CacheIdle

\* entities are written, read back into a target of their type and deleted
NextValues ==
    \/ UNCHANGED appVars /\ \E k \in CacheKeys : CacheGet(k, "object")
    \/ UNCHANGED appVars /\ \E k \in CacheKeys : CacheSet(k, "object", DefaultTTL)
    \/ UNCHANGED appVars /\ \E k \in CacheKeys : CacheDelete(<<k>>)
    \/ CacheTick
    \/ StoreDown
    \/ StoreUp

SpecValues == InitValues /\ [][NextValues]_vars

\* ------------------------------------------ CacheService.Get, step by step
\* Gets that run at the same time in one process: the read of the store and
\* the Add on the atomic counter are separate steps of each goroutine.
RECURSIVE Returned(_)
Returned(S) ==
    IF S = {} THEN 0
    ELSE LET p == CHOOSE x \in S : TRUE IN cg[p].returned + Returned(S \ {p})

InFlight == {p \in Procs : cg[p].pc # "idle"}

\* err := s.redis.Get(ctx, key, target) and the branch taken on it; an error
\* that is not "not found" is returned at once, no counter touched
GetRead(p) ==
    /\ cg[p].pc = "idle"
    /\ Returned(Procs) + Cardinality(InFlight) < MaxGets
    /\ \E k \in CacheKeys, t \in Shapes :
          LET o == CacheGetOutcome(cacheStore[k], k, t)
          IN  cg' = [cg EXCEPT ![p] =
                       IF o.err # None THEN [@ EXCEPT !.last = "error"]
                       ELSE [@ EXCEPT !.pc = "g_add", !.hit = o.hit, !.miss = o.miss]]
    /\ UNCHANGED <<limiterVars, up, cacheVars, db, hs, couriers, orders, tx>>

\* the counter updated by a load and a store instead of one atomic Add
GetAddLoadStore(p) ==
    /\ cg[p].pc = "g_add"
    /\ IF cg[p].reg = None
       THEN /\ cg' = [cg EXCEPT ![p].reg = <<hits, misses>>]
            /\ UNCHANGED <<hits, misses>>
       ELSE /\ hits' = cg[p].reg[1] + cg[p].hit
            /\ misses' = cg[p].reg[2] + cg[p].miss
            /\ cg' = [cg EXCEPT ![p] = [@ EXCEPT !.pc = "idle", !.reg = None, !.last = "ok",
                                                 !.returned = @ + 1]]
    /\ UNCHANGED <<limiterVars, up, cacheEnabled, cacheStore, evictions, cres, warm,
                   db, hs, couriers, orders, tx>>

\* s.hits.Add(1) / s.misses.Add(1) on the atomic.Uint64, then return nil error
GetAdd(p) ==
    /\ cg[p].pc = "g_add"
    /\ hits' = hits + cg[p].hit
    /\ misses' = misses + cg[p].miss
    /\ cg' = [cg EXCEPT ![p] = [@ EXCEPT !.pc = "idle", !.last = "ok", !.returned = @ + 1]]
    /\ UNCHANGED <<limiterVars, up, cacheEnabled, cacheStore, evictions, cres, warm,
                   db, hs, couriers, orders, tx>>

Get(p) ==
    \/ GetRead(p)
    \/ GetAdd(p)

\* the goroutines of one process read the cache while the store comes and goes
NextGets ==
    \/ \E p \in Procs : Get(p)
    \/ StoreDown
    \/ StoreUp

SpecGets == InitCache /\ [][NextGets]_vars

\* ------------------------------------------------------ business handlers
\* A row is known by its status: "v1" is an order that is created or a courier
\* that is available, "v2" any later status. The handlers of orders.go and
\* couriers.go differ in the key they use; a request that fails validation
\* returns before it reaches the cache or the database and is left out.
ReadOps == {"GetOrder", "GetCourier"}
UpdateOps == {"UpdateOrderStatus", "UpdateCourierStatus"}
HandlerOps == ReadOps \cup UpdateOps \cup {"AssignOrderToCourier"}

\* cacheKey := services.BuildKey("order" | "courier", id)
KeyOf(op) == IF op \in {"GetOrder", "UpdateOrderStatus"} THEN OrderKey ELSE CourierKey

FirstPc(op) == IF op \in ReadOps THEN "r_cache"
               ELSE IF op \in UpdateOps THEN "u_read" ELSE "a_tx"

\* the request moves on: its position, what it did, what it answered
Moved(h, to, event, status) ==
    [hs[h] EXCEPT !.pc = to, !.trace = Append(@, event), !.status = status]

Elems(keys) == {keys[n] : n \in 1..Len(keys)}

HandlerBegin(h) ==
    /\ hs[h].pc \in {"idle", "done"}
    /\ \E op \in HandlerOps :
         hs' = [hs EXCEPT ![h] = [NoReq EXCEPT !.op = op, !.pc = FirstPc(op)]]
    /\ UNCHANGED <<limiterVars, up, cacheVars, db, couriers, orders, tx, cg>>

\* found, _ := h.cacheService.Get(ctx, cacheKey, &entity); a hit is answered
GetCacheGet(h) ==
    /\ hs[h].pc = "r_cache"
    /\ CacheGet(KeyOf(hs[h].op), "object")
    /\ hs' = [hs EXCEPT ![h] =
                IF cres'.found
                THEN [Moved(h, "done", "cache.get", 200) EXCEPT !.found = TRUE,
                                                                !.loaded = cres'.value]
                ELSE Moved(h, "r_db", "cache.get", 0)]
    /\ UNCHANGED <<db, couriers, orders, tx, cg>>

\* entityPtr, err := service.GetOrder(id) / GetCourier(id)
GetDbRead(h) ==
    /\ hs[h].pc = "r_db"
    /\ \E ok \in BOOLEAN :
         hs' = [hs EXCEPT ![h] =
                  IF ok THEN [Moved(h, "r_set", "db.read", 0) EXCEPT !.loaded = db[KeyOf(hs[h].op)]]
                  ELSE Moved(h, "done", "db.read", 500)]
    /\ UNCHANGED <<limiterVars, up, cacheVars, db, couriers, orders, tx, cg>>

\* h.cacheService.Set(ctx, cacheKey, entityPtr, GetDefaultTTL()); 200
GetCacheSet(h) ==
    /\ hs[h].pc = "r_set"
    /\ CacheSetValue(KeyOf(hs[h].op), "object", hs[h].loaded, DefaultTTL)
    /\ hs' = [hs EXCEPT ![h] = Moved(h, "done", "cache.set", 200)]
    /\ UNCHANGED <<db, couriers, orders, tx, cg>>

\* current, err := service.GetOrder(id) / GetCourier(id), for the old status
UpdateDbRead(h) ==
    /\ hs[h].pc = "u_read"
    /\ \E ok \in BOOLEAN :
         hs' = [hs EXCEPT ![h] =
                  IF ok THEN Moved(h, "u_write", "db.read", 0)
                  ELSE Moved(h, "done", "db.read", 500)]
    /\ UNCHANGED <<limiterVars, up, cacheVars, db, couriers, orders, tx, cg>>

\* service.UpdateOrderStatus(id, &req) / UpdateCourierStatus(id, &req)
UpdateDbWrite(h) ==
    /\ hs[h].pc = "u_write"
    /\ LET key == KeyOf(hs[h].op)
       IN  \E ok \in BOOLEAN :
             IF ok
             THEN \E v \in Values \ {db[key]} :
                     /\ db' = [db EXCEPT ![key] = v]
                     /\ hs' = [hs EXCEPT ![h] =
                                 [Moved(h, "u_del", "db.write", 0) EXCEPT !.changed = {key}]]
             ELSE /\ db' = db
                  /\ hs' = [hs EXCEPT ![h] = Moved(h, "done", "db.write", 500)]
    /\ UNCHANGED <<limiterVars, up, cacheVars, couriers, orders, tx, cg>>

\* h.cacheService.Delete(ctx, cacheKey); an error is logged; 200
UpdateCacheDelete(h) ==
    /\ hs[h].pc = "u_del"
    /\ CacheDelete(<<KeyOf(hs[h].op)>>)
    /\ hs' = [hs EXCEPT ![h] =
                [Moved(h, "done", "cache.delete", 200) EXCEPT !.deleted = Elems(cres'.keys)]]
    /\ UNCHANGED <<db, couriers, orders, tx, cg>>

\* courierService.AssignOrderToCourier(orderID, courierID): one transaction
\* that needs an available courier and a created order and changes both rows
AssignDbTx(h) ==
    /\ hs[h].pc = "a_tx"
    /\ \E ok \in BOOLEAN :
         IF ok /\ db[CourierKey] = "v1" /\ db[OrderKey] = "v1"
         THEN /\ db' = [k \in EntityKeys |-> "v2"]
              /\ hs' = [hs EXCEPT ![h] =
                          [Moved(h, "a_del", "db.write", 0) EXCEPT !.changed = EntityKeys]]
         ELSE /\ db' = db
              /\ hs' = [hs EXCEPT ![h] = Moved(h, "done", "db.write", 400)]
    /\ UNCHANGED <<limiterVars, up, cacheVars, couriers, orders, tx, cg>>

\* the assignment that invalidates the courier and leaves the order cached
AssignCacheDeleteCourierOnly(h) ==
    /\ hs[h].pc = "a_del"
    /\ CacheDelete(<<CourierKey>>)
    /\ hs' = [hs EXCEPT ![h] =
                [Moved(h, "done", "cache.delete", 200) EXCEPT !.deleted = Elems(cres'.keys)]]
    /\ UNCHANGED <<db, couriers, orders, tx, cg>>

\* h.cacheService.Delete(ctx, courierCacheKey, orderCacheKey); 200
AssignCacheDelete(h) ==
    /\ hs[h].pc = "a_del"
    /\ CacheDelete(<<CourierKey, OrderKey>>)
    /\ hs' = [hs EXCEPT ![h] =
                [Moved(h, "done", "cache.delete", 200) EXCEPT !.deleted = Elems(cres'.keys)]]
    /\ UNCHANGED <<db, couriers, orders, tx, cg>>

Handler(h) ==
    \/ HandlerBegin(h)
    \/ GetCacheGet(h)
    \/ GetDbRead(h)
    \/ GetCacheSet(h)
    \/ UpdateDbRead(h)
    \/ UpdateDbWrite(h)
    \/ UpdateCacheDelete(h)
    \/ AssignDbTx(h)
    \/ AssignCacheDelete(h)

\* no rate limiter call runs; the cache is enabled and empty, one order and
\* one courier are in the database
InitHandlers ==
    /\ InitWith({}, {}, TRUE)
    /\ enabled = [p \in Procs |-> TRUE]
    /\ banDuration = MaxBanDuration
    /\ cacheEnabled = TRUE
    /\ cacheStore = [k \in EntityKeys |-> NoEntry]
    /\ hits = 0
    /\ misses = 0
    /\ evictions = 0
    /\ cres = NoCres
    /\ warm = NoWarm

\* one worker serves request after request; the store may fail
NextHandlers ==
    \/ \E h \in {"p1"} : Handler(h)
    \/ StoreDown
    \/ StoreUp

SpecHandlers == InitHandlers /\ [][NextHandlers]_vars

\* requests race on a store that answers every command; no entry expires
NextRace == \E h \in Procs : Handler(h)

SpecRace == InitHandlers /\ [][NextRace]_vars

\* ------------------------------------- CourierService.AssignOrderToCourier
\* The statements of the transaction, one step each, on a database at its
\* default isolation level (sql.Open("postgres", dsn), db.Begin()): a
\* statement reads what is committed when it runs, an UPDATE locks its row
\* until the transaction ends, waits for a row another transaction has locked
\* and then tests its WHERE clause on the row as committed.
OrderRow(o) == <<"orders", o>>
CourierRow(c) == <<"couriers", c>>

LockedByOther(p, row) == \E q \in Procs \ {p} : row \in tx[q].locked

\* return fmt.Errorf(msg); the deferred tx.Rollback() drops the updates and
\* releases the rows
TxFail(p, msg) ==
    /\ tx' = [tx EXCEPT ![p] = [@ EXCEPT !.pc = "done", !.result = "error",
                                         !.err = msg, !.locked = {}]]
    /\ UNCHANGED <<couriers, orders>>

\* tx, err := s.db.Begin(); defer tx.Rollback()
TxBegin(p) ==
    /\ tx[p].pc \in {"idle", "done"}
    /\ \E o \in OrderIds, c \in CourierIds :
          tx' = [tx EXCEPT ![p] = [NoTx EXCEPT !.pc = "t_select", !.order = o, !.courier = c]]
    /\ UNCHANGED <<limiterVars, up, cacheVars, db, hs, cg, couriers, orders>>

\* SELECT status FROM couriers WHERE id = $1, no row lock taken
TxSelectCourier(p) ==
    /\ tx[p].pc = "t_select"
    /\ \E ok \in BOOLEAN :
          IF ~ok THEN TxFail(p, "failed to check courier status")
          ELSE IF couriers[tx[p].courier] # CourierStatusAvailable
          THEN TxFail(p, "courier is not available")
          ELSE /\ tx' = [tx EXCEPT ![p].pc = "t_order"]
               /\ UNCHANGED <<couriers, orders>>
    /\ UNCHANGED <<limiterVars, up, cacheVars, db, hs, cg>>

\* the order update without its status condition
TxUpdateOrderAnyStatus(p) ==
    /\ tx[p].pc = "t_order"
    /\ ~LockedByOther(p, OrderRow(tx[p].order))
    /\ \E ok \in BOOLEAN :
          IF ~ok THEN TxFail(p, "failed to assign order to courier")
          ELSE /\ tx' = [tx EXCEPT ![p] = [@ EXCEPT !.pc = "t_courier",
                                                   !.locked = @ \cup {OrderRow(tx[p].order)}]]
               /\ UNCHANGED <<couriers, orders>>
    /\ UNCHANGED <<limiterVars, up, cacheVars, db, hs, cg>>

\* UPDATE orders SET courier_id, status = accepted WHERE id = $4 AND
\* status = created; rowsAffected == 0 is an error
TxUpdateOrder(p) ==
    /\ tx[p].pc = "t_order"
    /\ ~LockedByOther(p, OrderRow(tx[p].order))
    /\ \E ok \in BOOLEAN :
          IF ~ok THEN TxFail(p, "failed to assign order to courier")
          ELSE IF orders[tx[p].order].status # OrderStatusCreated
          THEN TxFail(p, "order not found or already assigned")
          ELSE /\ tx' = [tx EXCEPT ![p] = [@ EXCEPT !.pc = "t_courier",
                                                   !.locked = @ \cup {OrderRow(tx[p].order)}]]
               /\ UNCHANGED <<couriers, orders>>
    /\ UNCHANGED <<limiterVars, up, cacheVars, db, hs, cg>>

\* UPDATE couriers SET status = busy WHERE id = $3
TxUpdateCourier(p) ==
    /\ tx[p].pc = "t_courier"
    /\ ~LockedByOther(p, CourierRow(tx[p].courier))
    /\ \E ok \in BOOLEAN :
          IF ~ok THEN TxFail(p, "failed to update courier status")
          ELSE /\ tx' = [tx EXCEPT ![p] = [@ EXCEPT !.pc = "t_commit",
                                                   !.locked = @ \cup {CourierRow(tx[p].courier)}]]
               /\ UNCHANGED <<couriers, orders>>
    /\ UNCHANGED <<limiterVars, up, cacheVars, db, hs, cg>>

\* tx.Commit(): the updates become the committed rows; return nil
TxCommit(p) ==
    /\ tx[p].pc = "t_commit"
    /\ \E ok \in BOOLEAN :
          IF ~ok THEN TxFail(p, "failed to commit transaction")
          ELSE /\ orders' = [o \in OrderIds |->
                                IF OrderRow(o) \in tx[p].locked
                                THEN [status |-> OrderStatusAccepted,
                                      courier_id |-> <<tx[p].courier>>]
                                ELSE orders[o]]
               /\ couriers' = [c \in CourierIds |->
                                  IF CourierRow(c) \in tx[p].locked
                                  THEN CourierStatusBusy ELSE couriers[c]]
               /\ tx' = [tx EXCEPT ![p] = [@ EXCEPT !.pc = "done", !.result = "ok",
                                                   !.locked = {}]]
    /\ UNCHANGED <<limiterVars, up, cacheVars, db, hs, cg>>

AssignOrderToCourier(p) ==
    \/ TxBegin(p)
    \/ TxSelectCourier(p)
    \/ TxUpdateOrder(p)
    \/ TxUpdateCourier(p)
    \/ TxCommit(p)

\* two orders are created and one courier is available; the handlers assign
\* orders to the courier at the same time
InitAssign == InitHandlers

NextAssign == \E p \in Procs : AssignOrderToCourier(p)

SpecAssign == InitAssign /\ [][NextAssign]_vars

\* ------------------------------------------------------------------- specs
Next ==
    \/ \E p \in Procs : CheckLimit(p)
    \/ \E p \in Procs : GetStatus(p)
    \/ \E p \in Procs : ResetLimit(p)
    \/ Tick

Spec == Init /\ [][Next]_vars

NextFail ==
    \/ \E p \in Procs : CheckLimit(p)
    \/ \E p \in Procs : GetStatus(p)
    \/ \E p \in Procs : ResetLimit(p)
    \/ Tick
    \/ StoreDown
    \/ StoreUp
    \/ \E p \in Procs : Cancel(p)
    \/ \E p \in Procs : CheckLimitEvalMalformed(p)

SpecFail == InitFail /\ [][NextFail]_vars

\* one handler on a reachable store; a running call may be cancelled
NextCancel ==
    \/ \E p \in Procs : CheckLimit(p)
    \/ \E p \in Procs : GetStatus(p)
    \/ \E p \in Procs : ResetLimit(p)
    \/ Tick
    \/ \E p \in Procs : Cancel(p)

SpecCancel == InitFail /\ [][NextCancel]_vars

SpecIds == InitIds /\ [][Next]_vars

\* one handler checks one identity while time passes: the store keeps
\* expiring the keys that carry a time to live
NextExpiry ==
    \/ \E p \in Procs : CheckLimit(p)
    \/ Tick

SpecExpiry == InitFail /\ [][NextExpiry]_vars /\ WF_vars(Tick)

\* the values a ban key can hold when the service reads it: the "1" CheckLimit
\* writes and the empty string the lookup compares with
BanValues == {"1", ""}

\* The store outlives the service and is written by every client it has:
\* NewRateLimiterService is handed a store that may already hold a ban key of
\* the identity, with any value and with or without an expiry.
InitBan ==
    /\ actors = {"p1"}
    /\ clients = {"a"}
    /\ track = TRUE
    /\ enabled = [p \in Procs |-> TRUE]
    /\ banDuration = MaxBanDuration
    /\ cnt = [i \in Ids |-> Absent]
    /\ \E b \in {NoBan} \cup {[val |-> v, ttl |-> t] : v \in BanValues, t \in {-1, MaxBanDuration}} :
            ban = [i \in Ids |-> IF i = "a" THEN b ELSE NoBan]
    /\ up = TRUE
    /\ pc = [p \in Procs |-> "idle"]
    /\ call = [p \in Procs |-> [op |-> "none", ip |-> "a", vip |-> FALSE]]
    /\ ctxDone = [p \in Procs |-> FALSE]
    /\ cur = [p \in Procs |-> 0]
    /\ res = [p \in Procs |-> NoRes]
    /\ admitted = [i \in Ids |-> 0]
    /\ nth = [p \in Procs |-> 0]
    /\ lastRetry = [i \in Ids |-> None]
    /\ pre = [p \in Procs |-> <<Absent, NoBan, {}>>]
    /\ clean = [p \in Procs |-> TRUE]
    /\ anyOk = [p \in Procs |-> FALSE]
    /\ http = [p \in Procs |-> NoHttp]
    /\ db = [k \in EntityKeys |-> "v1"]
    /\ hs = [p \in Procs |-> NoReq]
    /\ couriers = [c \in CourierIds |-> CourierStatusAvailable]
    /\ orders = [o \in OrderIds |-> [status |-> OrderStatusCreated, courier_id |-> None]]
    /\ tx = [p \in Procs |-> NoTx]
    /\ cg = [p \in Procs |-> NoGet]
    /\ CacheIdle

SpecBan == InitBan /\ [][Next]_vars

\* two handlers check and reset one identity on a reachable store; no key
\* expires, and each call records what it found when it began
InitReset == InitWith(Procs, {"a"}, TRUE) /\ CacheIdle

NextReset ==
    \/ \E p \in Procs : CheckLimit(p)
    \/ \E p \in Procs : ResetLimit(p)

SpecReset == InitReset /\ [][NextReset]_vars

\* one worker serves requests through the middleware and requests of the
\* status endpoint while time passes; the store is reachable
NextStatus ==
    \/ \E p \in Procs : RateLimitMiddleware(p)
    \/ \E p \in Procs : StatusEndpoint(p)
    \/ Tick

SpecStatus == InitFail /\ [][NextStatus]_vars

\* requests pass through the middleware of one handler; the store may fail
\* and the request context may be cancelled
NextMw ==
    \/ \E p \in Procs : RateLimitMiddleware(p)
    \/ Tick
    \/ StoreDown
    \/ StoreUp
    \/ \E p \in Procs : Cancel(p)

SpecMw == InitFail /\ [][NextMw]_vars

\* The store state of an identity after one CheckLimit call that ran to
\* completion alone, from the state <<c, b>>.
CheckLimitSeq(c, b, v) ==
    IF b # NoBan /\ b.val # "" THEN <<c, b>>
    ELSE LET r == LuaScript(c, Limit(v), WindowSeconds)
         IN  IF r.ret[1] = 1 THEN <<r.cnt, b>>
             ELSE <<r.cnt, RedisSet("1", banDuration)>>

CheckPcs == {"c_ban_get", "c_ban_ttl", "c_eval", "c_ban_set", "c_cnt_ttl"}
StatusPcs == {"s_ban_get", "s_ban_ttl", "s_cnt_get", "s_cnt_ttl"}

\* handler p performs a store command in this step
StoreStep(p) == pc[p] # "idle" /\ pc'[p] # pc[p]

\* the store commands a call at this point may still issue before it returns
StoreCallsLeft(at) ==
    CASE at = "idle" -> 0
      [] at \in {"c_ban_get", "s_ban_get"} -> 3
      [] at \in {"c_eval", "s_cnt_get", "r_exec"} -> 2
      [] OTHER -> 1

\* ------------------------------------------------------------------ claims

\* C1: for every interleaving of concurrent CheckLimit calls on a reachable
\* store, the calls admitted during the life of one Quota Counter key never
\* outnumber the tier limit: an admitted call is at most the limit-th of its
\* window, the call that would be the (limit+1)-th is rejected by the script,
\* and the rejected call writes a Ban Record before it returns.
C1_AdmittedWithinLimit ==
    /\ [](\A i \in Ids : admitted[i] <= (IF VIPRPM > DefaultRPM THEN VIPRPM ELSE DefaultRPM))
    /\ [](\A p \in Procs :
            (pc[p] = "c_cnt_ttl" \/ res[p].kind = "admitted") => nth[p] <= Limit(call[p].vip))
    /\ [][\A p \in Procs :
            /\ (pc[p] = "c_eval" /\ StoreStep(p) /\ admitted[call[p].ip] + 1 > Limit(call[p].vip))
                  => pc'[p] = "c_ban_set"
            /\ (pc[p] = "c_ban_set" /\ StoreStep(p))
                  => (ban'[call[p].ip] # NoBan /\ ~res'[p].allowed)]_vars

C1_Witness ==
    \E p, q \in Procs :
        /\ p # q
        /\ res[p].kind = "admitted" /\ nth[p] = res[p].limit
        /\ res[q].kind = "rejected" /\ res[q].limit = res[p].limit
        /\ ban[call[q].ip] # NoBan

\* C2 (as claimed): the script's rejection and the writing of the Ban Record
\* are one indivisible step: while a call stands between its rejection and
\* its ban write, no other handler runs a store command on the same identity.
C2_RejectAndBanIndivisible ==
    [][\A p, q \in Procs :
         (p # q /\ pc[p] = "c_ban_set" /\ call[q].ip = call[p].ip) => ~StoreStep(q)]_vars

\* C3 (as claimed): while a Ban Record exists, a CheckLimit that looks the
\* ban up is rejected, no step of any CheckLimit call changes the Quota
\* Counter, no call returns allowed=true from the script, and the retryAfter
\* values returned one after the other never grow.
C3_BanPrecedence ==
    [][/\ \A p \in Procs :
            (pc[p] \in CheckPcs /\ StoreStep(p) /\ ban[call[p].ip] # NoBan)
                => /\ cnt'[call[p].ip] = cnt[call[p].ip]
                   /\ (pc[p] = "c_ban_get" => pc'[p] = "c_ban_ttl")
                   /\ pc'[p] # "c_cnt_ttl"
       /\ \A i \in Ids :
            (lastRetry[i] # None /\ lastRetry'[i] # None) => lastRetry'[i][1] <= lastRetry[i][1]]_vars

\* C4: no store command of GetStatus creates, changes, deletes or re-expires
\* the Quota Counter or the Ban Record, so a CheckLimit after any number of
\* GetStatus calls meets the store state it would have met without them.
C4_StatusReadsOnly ==
    [][\A p \in Procs :
         (pc[p] \in StatusPcs /\ StoreStep(p)) => (cnt' = cnt /\ ban' = ban)]_vars

C4_Witness ==
    \E p \in Procs :
        /\ call[p].op = "status" /\ res[p].kind = "status"
        /\ cnt[call[p].ip] # Absent
        /\ res[p].remaining = res[p].limit - cnt[call[p].ip].val

\* C5: a CheckLimit call none of whose store commands was answered returns
\* allowed=true, remaining = the tier limit and no error.
C5_FailOpen ==
    \A p \in Procs :
        (call[p].op = "check" /\ pc[p] = "idle" /\ res[p].kind # "none"
            /\ enabled[p] /\ ~anyOk[p])
        => /\ res[p].allowed
           /\ res[p].remaining = Limit(call[p].vip)
           /\ res[p].limit = Limit(call[p].vip)
           /\ ~res[p].err

C5_Witness ==
    \E p \in Procs :
        /\ call[p].op = "check" /\ pc[p] = "idle" /\ res[p].kind = "failopen"
        /\ ~anyOk[p] /\ ~up /\ ~ctxDone[p]
        /\ ban[call[p].ip] # NoBan

\* C6: the k-th call of a window (k <= limit) is admitted with
\* remaining = limit - k, and a call beyond the limit-th is rejected: exactly
\* limit calls are admitted per window.
C6_InclusiveLimit ==
    \A p \in Procs :
        /\ res[p].kind = "admitted"
             => /\ nth[p] \in 1..res[p].limit
                /\ res[p].allowed
                /\ res[p].remaining = res[p].limit - nth[p]
        /\ res[p].kind = "rejected"
             => /\ nth[p] > res[p].limit
                /\ ~res[p].allowed

C6_Witness ==
    \E p, q \in Procs :
        /\ res[p].kind = "admitted" /\ res[p].remaining = 0 /\ nth[p] = DefaultRPM
        /\ res[q].kind = "rejected" /\ nth[q] = DefaultRPM + 1
        /\ ~call[p].vip /\ ~call[q].vip

\* C7 (as claimed): the call the script rejects returns allowed=false with
\* retryAfter = the ban duration, and when it returns the identity has a Ban
\* Record whose time to live is the ban duration.
C7_BanWrittenWithDuration ==
    [][\A p \in Procs :
         (pc[p] = "c_ban_set" /\ StoreStep(p))
            => /\ ~res'[p].allowed
               /\ res'[p].retryAfter = banDuration
               /\ ban'[call[p].ip] # NoBan
               /\ RedisTTL(ban'[call[p].ip]) = banDuration]_vars

\* C8 (as claimed): an admitted call on an existing counter increments the
\* value and leaves the key's time to live as it was.
C8_WindowFixedAtCreation ==
    [][\A i \in Ids :
         (cnt[i] # Absent /\ cnt'[i] # Absent /\ cnt'[i].val = cnt[i].val + 1)
            => cnt'[i].ttl = cnt[i].ttl]_vars

\* C9: the Ban Record lives apart from the Quota Counter: it disappears only
\* when its own time to live runs out or when ResetLimit deletes it, and a
\* CheckLimit that looks up an existing ban is rejected whether or not the
\* counter still exists.
C9_BanIndependentOfCounter ==
    [][/\ \A i \in Ids :
            (ban[i] # NoBan /\ ban'[i] = NoBan)
                => \/ (Tick /\ ban[i].ttl \in 1..TickSeconds)
                   \/ \E p \in Procs : ResetLimitDelBan(p) /\ call[p].ip = i
       /\ \A p \in Procs :
            (pc[p] = "c_ban_get" /\ StoreStep(p) /\ ban[call[p].ip] # NoBan)
                => pc'[p] = "c_ban_ttl"]_vars

C9_Witness ==
    \E p \in Procs :
        /\ pc[p] = "c_ban_ttl"
        /\ cnt[call[p].ip] = Absent
        /\ ban[call[p].ip] # NoBan

\* C10: wherever a CheckLimit call is cut off by the cancellation of its
\* context, the identity's keys are those of before the call or those a
\* completed call leaves, as long as nothing else touched them meanwhile.
C10_NoHalfUpdate ==
    \A p \in Procs :
        (call[p].op = "check" /\ enabled[p] /\ track /\ clean[p])
        => <<cnt[call[p].ip], ban[call[p].ip]>>
              \in {<<pre[p][1], pre[p][2]>>, CheckLimitSeq(pre[p][1], pre[p][2], call[p].vip)}

C10_Witness ==
    \E p \in Procs :
        /\ call[p].op = "check" /\ track /\ clean[p] /\ ctxDone[p]
        /\ pc[p] = "idle" /\ res[p].kind = "rejected"
        /\ ban[call[p].ip] = NoBan
        /\ cnt[call[p].ip] = pre[p][1]

\* C11: on a reachable store, every step of ResetLimit leaves the keys of the
\* other identities as they were; when it returns it reports no error and
\* neither the Quota Counter nor the Ban Record of its identity exists,
\* whatever existed before (so a second reset ends in the state the first one
\* left); and a CheckLimit that starts on an identity without keys, as after a
\* reset, is admitted with remaining = limit - 1.
C11_ResetRemovesBoth ==
    [][\A p \in Procs :
        /\ (call[p].op = "reset" /\ StoreStep(p))
              => \A j \in Ids \ {call[p].ip} : cnt'[j] = cnt[j] /\ ban'[j] = ban[j]
        /\ (call[p].op = "reset" /\ StoreStep(p) /\ pc'[p] = "idle")
              => /\ res'[p] = ResetResult(FALSE)
                 /\ cnt'[call[p].ip] = Absent
                 /\ ban'[call[p].ip] = NoBan
        /\ (call[p].op = "check" /\ enabled[p] /\ pre[p][1] = Absent /\ pre[p][2] = NoBan
                /\ StoreStep(p) /\ pc'[p] = "idle")
              => /\ res'[p].kind = "admitted"
                 /\ res'[p].allowed
                 /\ res'[p].remaining = Limit(call[p].vip) - 1]_vars

\* a reset has removed an existing counter and an existing ban of one identity
\* while the other identity keeps its counter
C11_Witness ==
    \E p \in Procs :
        /\ pc[p] = "idle" /\ res[p] = ResetResult(FALSE)
        /\ pre[p][1] # Absent /\ pre[p][2] # NoBan
        /\ cnt[call[p].ip] = Absent /\ ban[call[p].ip] = NoBan
        /\ \E j \in Ids \ {call[p].ip} : cnt[j] # Absent

\* C12: a CheckLimit of an instance whose admission control is disabled
\* returns at once, allowed with remaining = limit = MaxInt, for every
\* identity and tier and whatever the store holds (a Ban Record, a counter at
\* the limit); the instance never has a store command of CheckLimit pending,
\* and the step changes no key.
C12_DisabledAllowsAll ==
    /\ [](\A p \in Procs : ~enabled[p] => pc[p] \notin CheckPcs)
    /\ [][\A p \in Procs :
            (~enabled[p] /\ pc[p] = "idle" /\ CheckLimitBegin(p))
                => /\ pc'[p] = "idle"
                   /\ res'[p].allowed /\ ~res'[p].err
                   /\ res'[p].remaining = MaxInt /\ res'[p].limit = MaxInt
                   /\ cnt' = cnt /\ ban' = ban]_vars

\* a disabled instance has allowed a call on an identity that an enabled
\* instance has banned and whose counter is at the limit
C12_Witness ==
    \E p \in Procs :
        /\ ~enabled[p] /\ pc[p] = "idle"
        /\ call[p].op = "check" /\ ~call[p].vip
        /\ res[p].allowed /\ res[p].remaining = MaxInt
        /\ ban[call[p].ip] # NoBan
        /\ cnt[call[p].ip] # Absent /\ cnt[call[p].ip].val >= DefaultRPM

\* C13: on a reachable store a GetStatus that found no ban reads the counter
\* as its stored value, or 0 when the key is absent, and reports
\* remaining = max(0, limit - count), never a negative number, also when the
\* count is above the limit of the tier asked about; when the counter key does
\* not exist at the TTL query, resetAt is unset.
C13_StatusRemaining ==
    [][\A p \in Procs :
        LET id == call[p].ip
            limit == Limit(call[p].vip)
        IN  /\ (pc[p] = "s_cnt_get" /\ StoreStep(p))
                  => cur'[p] = (IF cnt[id] = Absent THEN 0 ELSE cnt[id].val)
            /\ (pc[p] = "s_cnt_ttl" /\ StoreStep(p))
                  => /\ res'[p].remaining >= 0
                     /\ res'[p].remaining = (IF limit > cur[p] THEN limit - cur[p] ELSE 0)
                     /\ res'[p].limit = limit
                     /\ ~res'[p].err
                     /\ (cnt[id] = Absent => res'[p].resetIn = None)
                     /\ (cnt[id] # Absent => res'[p].resetIn = <<cnt[id].ttl>>)]_vars

\* the status of the default tier was asked for an identity whose counter a
\* VIP call had taken above the default limit
C13_Witness ==
    \E p \in Procs :
        /\ pc[p] = "idle" /\ res[p].kind = "status"
        /\ ~call[p].vip /\ cur[p] > DefaultRPM
        /\ res[p].remaining = 0

\* C14: when Eval returns without an error a value that is not a list of
\* three elements, CheckLimit returns what it returns on a store error of
\* Eval: allowed, remaining = limit = the tier limit, no error; it goes on to
\* no further store command and the Ban Record stays as it was.
C14_MalformedReplyFailsOpen ==
    [][\A p \in Procs :
        CheckLimitEvalMalformed(p)
            => /\ pc'[p] = "idle"
               /\ res'[p] = FailOpen(Limit(call[p].vip))
               /\ res'[p].allowed /\ ~res'[p].err
               /\ res'[p].remaining = Limit(call[p].vip)
               /\ ban' = ban]_vars

\* a call was let through on a malformed reply of a script that had run: the
\* call itself took the counter of its identity to the limit, and the
\* identity has no ban
C14_Witness ==
    \E p \in Procs :
        /\ pc[p] = "idle" /\ call[p].op = "check" /\ ~call[p].vip
        /\ res[p] = FailOpen(DefaultRPM)
        /\ track /\ clean[p]
        /\ cnt[call[p].ip] # pre[p][1]
        /\ cnt[call[p].ip] = [val |-> DefaultRPM, ttl |-> WindowSeconds]
        /\ ban[call[p].ip] = NoBan

C16_DisabledCache ==
    /\ [](~cacheEnabled => hits = 0)
    /\ [][~cacheEnabled =>
            /\ \A k \in CacheKeys, t \in Shapes :
                    CacheGet(k, t) => /\ ~cres'.found /\ cres'.err = None
                                      /\ misses' = misses + 1 /\ hits' = hits
                                      /\ cacheStore' = cacheStore
            /\ \A k \in CacheKeys, sh \in Shapes, ttl \in {DefaultTTL, HotDataTTL} :
                    CacheSet(k, sh, ttl) => cres'.err = None /\ cacheStore' = cacheStore
            /\ \A ks \in KeyLists :
                    CacheDelete(ks) => cres'.err = None /\ cacheStore' = cacheStore
                                          /\ evictions' = evictions]_vars

\* with caching disabled and the store unreachable, a Set of a key the store
\* holds has returned success after two gets were counted as misses
C16_Witness ==
    /\ ~cacheEnabled /\ ~up
    /\ cres.op = "set" /\ cres.err = None
    /\ cacheStore[cres.key] # NoEntry
    /\ misses >= 2 /\ hits = 0

\* C17: with caching enabled and the store reachable, a Get of a key the
\* store does not hold (never written, deleted or expired) returns
\* found = false and no error and adds one to misses and nothing to hits; a
\* Get of a key whose value decodes into the target returns found = true and
\* adds one to hits and nothing to misses.
C17_HitAndMiss ==
    [][(cacheEnabled /\ up) =>
        \A k \in CacheKeys, t \in Shapes :
            CacheGet(k, t) =>
                /\ cacheStore[k] = NoEntry
                      => /\ ~cres'.found /\ cres'.err = None
                         /\ misses' = misses + 1 /\ hits' = hits
                /\ (cacheStore[k] # NoEntry /\ Decodable(cacheStore[k].shape, t))
                      => /\ cres'.found /\ cres'.err = None
                         /\ hits' = hits + 1 /\ misses' = misses]_vars

\* a key was read with a hit and, after its entry was gone, with a miss
C17_Witness ==
    /\ cacheEnabled /\ up
    /\ cres.op = "get" /\ ~cres.found /\ cres.err = None
    /\ cacheStore[cres.key] = NoEntry
    /\ hits >= 1 /\ misses >= 1

\* C18 (as claimed): for every key, a Get whose store call fails for another
\* reason than the absence of the key (the store is unreachable, or the
\* stored value does not decode into the target) returns an error.
C18_FailureIsNotAMiss ==
    [][cacheEnabled =>
        \A k \in CacheKeys, t \in Shapes :
            (CacheGet(k, t)
                /\ (~up \/ (cacheStore[k] # NoEntry /\ ~Decodable(cacheStore[k].shape, t))))
            => cres'.err # None]_vars

\* C19 (as claimed): a Get whose store call fails with another error than
\* the absence of the key returns the error, leaves hits as it is and adds
\* one to misses.
C19_ErrorCountsAsMiss ==
    [][cacheEnabled =>
        \A k \in CacheKeys, t \in Shapes :
            (CacheGet(k, t)
                /\ (~up \/ (cacheStore[k] # NoEntry /\ ~Decodable(cacheStore[k].shape, t))))
            => /\ cres'.err # None
               /\ hits' = hits
               /\ misses' = misses + 1]_vars

C21_HitRate ==
    [][GetMetrics =>
        LET snap == cres'.snap
            num == snap.hitRate[1]
            den == snap.hitRate[2]
        IN  /\ snap.hits = hits /\ snap.misses = misses
            /\ snap.totalReqs = hits + misses
            /\ den > 0
            /\ (hits + misses > 0) => num * (hits + misses) = 100 * hits * den
            /\ (hits + misses = 0) => num = 0
            /\ 0 <= num /\ num <= 100 * den]_vars

\* a snapshot taken after one hit and two misses
C21_Witness ==
    /\ cres.op = "metrics"
    /\ cres.snap.hits = 1 /\ cres.snap.misses = 2
    /\ cres.snap.hitRate = <<100, 3>>

\* C22 (as claimed): when a warmup has returned, the loader of every entry
\* was invoked exactly once.
C22_EveryLoaderInvoked ==
    cres.op = "warmup" => \A k \in DOMAIN cres.loaders : cres.calls[k] = 1

\* C22 (amended): with caching enabled a warmup calls the loader of every
\* entry exactly once, whatever loaders or store writes fail on the way: each
\* turn of the loop calls the loader of one entry not yet processed, writes
\* the loaded value under its key with the hot-data TTL when the store takes
\* it and counts it, and leaves the store alone otherwise; the loop always has
\* its next turn or its return, the return carries no error, and the success
\* count is at most the number of entries. With caching disabled the warmup
\* returns at once: no loader is called and nothing is stored.
C22_WarmupProcessesAll ==
    /\ [](warm.active =>
            /\ ENABLED (WarmupEntry \/ WarmupEnd)
            /\ \A k \in DOMAIN warm.loaders :
                    warm.calls[k] = (IF k \in warm.todo THEN 0 ELSE 1)
            /\ warm.success <= Cardinality(DOMAIN warm.loaders \ warm.todo))
    /\ [](cres.op = "warmup" =>
            /\ cres.err = None
            /\ cres.success <= Cardinality(DOMAIN cres.loaders)
            /\ \A k \in DOMAIN cres.loaders :
                    cres.calls[k] = (IF cacheEnabled THEN 1 ELSE 0))
    /\ [][WarmupEntry =>
            \E key \in warm.todo :
                /\ warm'.todo = warm.todo \ {key}
                /\ \A k \in CacheKeys \ {key} : cacheStore'[k] = cacheStore[k]
                /\ IF warm.loaders[key] = "ok" /\ up
                   THEN /\ cacheStore'[key].ttl = HotDataTTL
                        /\ warm'.success = warm.success + 1
                   ELSE /\ cacheStore'[key] = cacheStore[key]
                        /\ warm'.success = warm.success]_vars
    /\ [][\A loaders \in LoaderMaps :
            (WarmupBegin(loaders) /\ ~cacheEnabled)
                => /\ cacheStore' = cacheStore /\ ~warm'.active
                   /\ cres'.op = "warmup" /\ cres'.success = 0]_vars

\* a warmup of two entries has returned: the loader of one failed, the other
\* was loaded and stored with the hot-data TTL
C22_Witness ==
    /\ cres.op = "warmup" /\ cacheEnabled
    /\ cres.total = 2 /\ cres.success = 1
    /\ \E k, j \in DOMAIN cres.loaders :
        /\ cres.loaders[k] = "fail" /\ cres.loaders[j] = "ok"
        /\ cres.calls[k] = 1 /\ cres.calls[j] = 1
        /\ cacheStore[j] = [shape |-> "object", val |-> "v1", ttl |-> HotDataTTL]

C27_MetricsNeverFails ==
    [][GetMetrics =>
        /\ cres'.err = None
        /\ cres'.snap.cacheSize = (IF up THEN DBSize ELSE 0)
        /\ <<cres'.snap.hits, cres'.snap.misses, cres'.snap.evictions>>
              = <<hits, misses, evictions>>
        /\ <<hits', misses', evictions'>> = <<hits, misses, evictions>>]_vars

\* a snapshot taken while the store was unreachable: it reports no key although
\* the store holds one, and carries the counters
C27_Witness ==
    /\ cres.op = "metrics" /\ cres.err = None
    /\ ~up /\ cacheEnabled
    /\ cres.snap.cacheSize = 0
    /\ \E k \in CacheKeys : cacheStore[k] # NoEntry
    /\ cres.snap.hits >= 1 /\ cres.snap.evictions >= 1

\* C28: no step lowers hits, misses or evictions, and a Set, a GetMetrics and
\* every step of a warmup leave the three as they are.
C28_CountersMonotonic ==
    [][/\ hits' >= hits /\ misses' >= misses /\ evictions' >= evictions
       /\ (\/ \E k \in CacheKeys, sh \in Shapes, ttl \in {DefaultTTL, HotDataTTL} :
                 CacheSet(k, sh, ttl)
           \/ GetMetrics
           \/ WarmupCache)
            => <<hits', misses', evictions'>> = <<hits, misses, evictions>>]_vars

\* a snapshot was taken after every counter had advanced
C28_Witness ==
    /\ cres.op = "metrics"
    /\ hits >= 1 /\ misses >= 1 /\ evictions >= 1
    /\ <<cres.snap.hits, cres.snap.misses, cres.snap.evictions>> = <<hits, misses, evictions>>

\* C24: in the rate-limit middleware the wrapped handler is reached only after
\* CheckLimit has returned; a request whose decision is allowed=false gets a
\* 429 carrying the decision's retry-after and never reaches the wrapped
\* handler; a request whose decision is allowed=true reaches it exactly once.
C24_MiddlewareOrder ==
    /\ [](\A p \in Procs :
            /\ http[p].stage = "checking" => http[p].served = 0
            /\ http[p].stage = "done" =>
                 IF res[p].allowed
                 THEN http[p].served = 1 /\ http[p].status = 0
                 ELSE /\ http[p].served = 0
                      /\ http[p].status = 429
                      /\ http[p].retryAfter = <<res[p].retryAfter>>)
    /\ [][\A p \in Procs :
            http'[p].served > http[p].served =>
                /\ http[p].stage = "checking"
                /\ pc[p] = "idle"
                /\ res[p].kind # "none"
                /\ http'[p].served = 1]_vars

C24_Witness ==
    \E p \in Procs :
        /\ http[p].stage = "done"
        /\ res[p].kind = "banned"
        /\ http[p].served = 0
        /\ http[p].status = 429
        /\ http[p].retryAfter = <<banDuration>>
        /\ banDuration > 0
\* C25: a CheckLimit call that the script rejects leaves the counter key as it
\* was before the call, value and TTL: the stored count still equals the
\* number of admitted calls of the window; and a GetStatus made right after
\* the rejection, before any time has passed, reports allowed=false and
\* leaves the counter alone as well.
C25_RejectionLeavesCounter ==
    /\ [](\A p \in Procs :
            (pc[p] = "idle" /\ call[p].op = "check" /\ res[p].kind = "rejected" /\ clean[p])
            => /\ cnt[call[p].ip] = pre[p][1]
               /\ cnt[call[p].ip] # Absent
               /\ cnt[call[p].ip].val = admitted[call[p].ip]
               /\ ban[call[p].ip] = RedisSet("1", banDuration))
    /\ [](\A p \in Procs :
            (/\ pc[p] = "idle" /\ call[p].op = "status" /\ enabled[p] /\ clean[p]
             /\ pre[p][2] = RedisSet("1", banDuration)
             /\ pre[p][1] # Absent)
            => /\ ~res[p].allowed
               /\ cnt[call[p].ip] = pre[p][1])
    /\ [][\A p \in Procs :
            (pc[p] = "c_eval" /\ pc'[p] = "c_ban_set") => cnt' = cnt]_vars

C25_Witness ==
    \E p \in Procs :
        /\ pc[p] = "idle" /\ call[p].op = "status" /\ call[p].vip /\ clean[p]
        /\ banDuration > 0
        /\ pre[p][2] = RedisSet("1", banDuration)
        /\ pre[p][1] # Absent
        /\ pre[p][1].val = DefaultRPM
        /\ admitted[call[p].ip] = DefaultRPM
        /\ cnt[call[p].ip] = pre[p][1]
        /\ res[p].kind = "status_banned"
        /\ ~res[p].allowed
C29_CacheAside ==
    /\ [](\A h \in Procs :
            LET r == hs[h]
                n == Len(r.trace)
            IN  /\ r.op \in ReadOps =>
                     /\ n > 0 => r.trace[1] = "cache.get"
                     /\ Contains(r.trace, "db.read") => (~r.found /\ r.trace[2] = "db.read")
                     /\ r.found => (r.trace = <<"cache.get">> /\ r.status = 200)
                     /\ (r.status = 200 /\ ~r.found)
                            => r.trace = <<"cache.get", "db.read", "cache.set">>
                /\ r.op \in HandlerOps \ ReadOps =>
                     /\ r.status = 200 =>
                            /\ r.changed # {}
                            /\ r.changed \subseteq r.deleted
                            /\ n >= 2
                            /\ r.trace[n - 1] = "db.write"
                            /\ r.trace[n] = "cache.delete"
                     /\ r.changed # {} => r.pc \in {"u_del", "a_del", "done"}
                     /\ (r.changed # {} /\ r.pc = "done") => r.status = 200
                /\ r.status # 0 <=> r.pc = "done")
    /\ [][\A h \in Procs :
            /\ (hs[h].pc = "r_set" /\ hs'[h].pc = "done") =>
                  /\ cres' = [op |-> "set", key |-> KeyOf(hs[h].op), found |-> FALSE,
                              err |-> cres'.err, shape |-> "object", value |-> hs[h].loaded]
                  /\ up => cacheStore'[KeyOf(hs[h].op)]
                               = JsonMarshal("object", hs[h].loaded, DefaultTTL)
            /\ (hs[h].pc = "r_db" /\ hs'[h].pc = "r_set") =>
                  hs'[h].loaded = db[KeyOf(hs[h].op)]
            /\ (hs[h].pc \in {"u_del", "a_del"} /\ hs'[h].pc = "done") =>
                  /\ cres'.op = "delete"
                  /\ Elems(cres'.keys) = hs[h].changed
                  /\ up => \A k \in hs[h].changed : cacheStore'[k] = NoEntry]_vars

C29_Witness ==
    \E h \in Procs :
        /\ hs[h].op = "AssignOrderToCourier"
        /\ hs[h].pc = "done"
        /\ hs[h].status = 200
        /\ hs[h].trace = <<"db.write", "cache.delete">>
        /\ hs[h].deleted = {OrderKey, CourierKey}
        /\ db = [k \in EntityKeys |-> "v2"]
        /\ cres.op = "delete" /\ cres.err = None
        /\ evictions >= 2
\* C30: whenever every request has completed, the cache entry of the order is
\* absent or holds the order's current database row, however GetOrder requests
\* interleaved with UpdateOrderStatus and AssignOrderToCourier requests on it.
C30_NoStaleOrder ==
    (\A h \in Procs : hs[h].pc \in {"idle", "done"})
        => \/ cacheStore[OrderKey] = NoEntry
           \/ JsonUnmarshal(cacheStore[OrderKey]) = db[OrderKey]
\* C31: once ResetLimit has returned and the CheckLimit calls on the identity
\* that began before the reset have returned, the identity has neither a
\* counter key nor a ban key, unless a CheckLimit that began after the reset
\* created it. Here q's call began while p was idle and before p's reset
\* removed a key, and both have returned.
C31_ResetIsFinal ==
    \A p \in Procs : \A q \in Procs \ {p} :
        (/\ pc[p] = "idle" /\ call[p].op = "reset" /\ res[p].kind = "reset" /\ ~res[p].err
         /\ pc[q] = "idle" /\ call[q].op = "check" /\ call[q].ip = call[p].ip
         /\ p \notin pre[q][3]
         /\ ~clean[q])
        => (cnt[call[p].ip] = Absent /\ ban[call[p].ip] = NoBan)
\* C32: a CheckLimit call on an identity with a live ban key, at least one of
\* whose store commands was answered, does not admit the request, leaves the
\* counter as it was and leaves the ban key with the time to live it had; in
\* particular when the ban lookup failed and the commands after it succeeded
\* (a call that ended in the fail-open result is not looked at).
C32_FailedLookupKeepsBan ==
    \A p \in Procs :
        (/\ call[p].op = "check" /\ pc[p] = "idle" /\ res[p].kind # "none"
         /\ enabled[p] /\ track /\ clean[p] /\ anyOk[p] /\ res[p].kind # "failopen"
         /\ pre[p][2] # NoBan /\ pre[p][2].val # "")
        => /\ ~res[p].allowed
           /\ cnt[call[p].ip] = pre[p][1]
           /\ ban[call[p].ip] = pre[p][2]
\* C33: the status endpoint answers is_banned=true exactly for an identity
\* whose ban key was in the store when the status was read; an identity that
\* has used up its quota without a rejection is reported as not banned with
\* remaining 0.
C33_BannedMeansBanKey ==
    \A p \in Procs :
        (http[p].stage = "reported" /\ http[p].status = 200 /\ enabled[p] /\ clean[p])
        => /\ http[p].isBanned <=> pre[p][2] # NoBan
           /\ (pre[p][2] = NoBan /\ pre[p][1] # Absent /\ pre[p][1].val = DefaultRPM)
                 => http[p].remaining = 0
\* C34 as stated: with nothing else going on and the store reachable,
\* GetStatus(id, tier) returns allowed=true exactly when a CheckLimit(id, tier)
\* made right after it returns allowed=true, and then the CheckLimit reports
\* one less remaining than the GetStatus did.
C34_StatusPredictsCheck ==
    \A p \in Procs :
        LET st == GetStatusSeq(enabled[p], pre[p][1], pre[p][2], call[p].vip)
        IN  /\ (call[p].op = "status" /\ pc[p] = "idle" /\ track /\ clean[p])
                 => res[p] = st
            /\ (call[p].op = "check" /\ pc[p] = "idle" /\ track /\ clean[p])
                 => /\ res[p].allowed <=> st.allowed
                    /\ res[p].allowed => res[p].remaining = st.remaining - 1

\* C34, amended to a service whose admission control is enabled: GetStatus on
\* a quiet, reachable store reports allowed=true exactly when the CheckLimit
\* that follows is admitted, and the admitted call reports one less remaining.
C34_StatusPredictsCheckEnabled ==
    \A p \in Procs :
        LET st == GetStatusSeq(enabled[p], pre[p][1], pre[p][2], call[p].vip)
        IN  /\ (call[p].op = "status" /\ pc[p] = "idle" /\ track /\ clean[p])
                 => res[p] = st
            /\ (call[p].op = "check" /\ pc[p] = "idle" /\ track /\ clean[p] /\ enabled[p])
                 => /\ res[p].allowed <=> st.allowed
                    /\ res[p].allowed => res[p].remaining = st.remaining - 1

C34_Witness ==
    \E p \in Procs :
        /\ call[p].op = "check" /\ pc[p] = "idle" /\ track /\ clean[p] /\ enabled[p]
        /\ pre[p][2] = NoBan
        /\ pre[p][1] # Absent /\ pre[p][1].val = 1
        /\ res[p].kind = "admitted"
        /\ res[p].remaining = Limit(call[p].vip) - 2
        /\ GetStatusSeq(enabled[p], pre[p][1], pre[p][2], call[p].vip).remaining
               = Limit(call[p].vip) - 1
\* C35 (as claimed): whatever the configured ban duration, a ban ends: while
\* the banned identity makes no further CheckLimit call its Ban Record is
\* eventually removed by expiry, and the CheckLimit that finds neither ban nor
\* counter is admitted with remaining = limit - 1.
C35_BanEnds ==
    /\ \A i \in Ids :
          (ban[i] # NoBan)
             ~> (\/ ban[i] = NoBan
                 \/ \E p \in Procs : pc[p] # "idle" /\ call[p].op = "check" /\ call[p].ip = i)
    /\ [](\A p \in Procs :
            (/\ call[p].op = "check" /\ pc[p] = "idle" /\ res[p].kind # "none"
             /\ enabled[p] /\ clean[p]
             /\ pre[p][1] = Absent /\ pre[p][2] = NoBan)
            => /\ res[p].allowed
               /\ res[p].remaining = res[p].limit - 1)
\* C36: with admission control enabled every CheckLimit result with
\* allowed=true has 0 <= remaining <= limit; a Quota Counter present in the
\* store holds at least 1 and at most the largest tier limit, and every value
\* written to it lies between 1 and the limit of the call that writes it, so
\* that it never exceeds the largest limit used on the identity (VIP and
\* non-VIP calls share the counter).
C36_WithinBounds ==
    /\ [](\A p \in Procs :
            (/\ call[p].op = "check" /\ pc[p] = "idle" /\ res[p].kind # "none"
             /\ enabled[p] /\ res[p].allowed)
            => (0 <= res[p].remaining /\ res[p].remaining <= res[p].limit))
    /\ [](\A i \in Ids :
            cnt[i] # Absent
            => /\ 1 <= cnt[i].val
               /\ \E v \in BOOLEAN : cnt[i].val <= Limit(v))
    /\ [][\A i \in Ids :
            (cnt'[i] # Absent /\ (cnt[i] = Absent \/ cnt'[i].val # cnt[i].val))
            => \E p \in Procs :
                  /\ pc[p] = "c_eval" /\ call[p].ip = i
                  /\ 1 <= cnt'[i].val
                  /\ cnt'[i].val <= Limit(call[p].vip)]_vars

C36_Witness ==
    \E p \in Procs :
        /\ call[p].op = "check" /\ pc[p] = "idle" /\ enabled[p]
        /\ call[p].vip
        /\ res[p].kind = "admitted" /\ res[p].remaining = 0
        /\ cnt[call[p].ip] # Absent /\ cnt[call[p].ip].val = VIPRPM
\* C37 (as claimed): whatever the interleaving of concurrent
\* AssignOrderToCourier calls, the courier who was available receives at most
\* one order: two calls that assign different orders to the same courier
\* never both succeed.
C37_OneOrderPerCourier ==
    /\ \A c \in CourierIds :
          Cardinality({o \in OrderIds : orders[o].status = OrderStatusAccepted
                                        /\ orders[o].courier_id = <<c>>}) <= 1
    /\ \A p \in Procs : \A q \in Procs \ {p} :
          ~(/\ tx[p].pc = "done" /\ tx[p].result = "ok"
            /\ tx[q].pc = "done" /\ tx[q].result = "ok"
            /\ tx[p].courier = tx[q].courier
            /\ tx[p].order # tx[q].order)
\* C38: whatever the interleaving of concurrent AssignOrderToCourier calls on
\* one order, at most one of them succeeds: the order goes from created to
\* accepted once and never changes again, and a call that fails leaves the
\* order row and the courier row as they were, holding no row afterwards.
C38_OneAssignmentPerOrder ==
    /\ [](\A p \in Procs : \A q \in Procs \ {p} :
            ~(/\ tx[p].pc = "done" /\ tx[p].result = "ok"
              /\ tx[q].pc = "done" /\ tx[q].result = "ok"
              /\ tx[p].order = tx[q].order))
    /\ [][\A o \in OrderIds :
            orders'[o] # orders[o]
            => /\ orders[o].status = OrderStatusCreated
               /\ orders'[o].status = OrderStatusAccepted]_vars
    /\ [][\A p \in Procs :
            (tx[p].pc # "done" /\ tx'[p].pc = "done" /\ tx'[p].result = "error")
            => /\ orders' = orders
               /\ couriers' = couriers
               /\ tx'[p].locked = {}]_vars
    /\ [][(orders' # orders \/ couriers' # couriers)
            => \E p \in Procs : tx[p].pc = "t_commit" /\ tx'[p].result = "ok"]_vars

C38_Witness ==
    \E p \in Procs : \E q \in Procs \ {p} :
        /\ tx[p].pc = "done" /\ tx[p].result = "ok"
        /\ tx[q].pc = "done" /\ tx[q].result = "error"
        /\ tx[q].err = "order not found or already assigned"
        /\ tx[q].order = tx[p].order
        /\ orders[tx[p].order] = [status |-> OrderStatusAccepted, courier_id |-> <<tx[p].courier>>]
\* C39: however the Get calls of one process interleave, once all of them
\* have returned hits + misses is the number of Gets that returned without an
\* error: no increment of a counter is lost.
C39_NoLostIncrement ==
    (\A p \in Procs : cg[p].pc = "idle")
        => hits + misses = Returned(Procs)

C39_Witness ==
    /\ \A p \in Procs : cg[p].pc = "idle" /\ cg[p].returned >= 1
    /\ \E p \in Procs : cg[p].last = "error"
    /\ hits >= 1
    /\ misses >= 1
    /\ hits + misses = MaxGets

TypeOK ==
    /\ enabled \in [Procs -> BOOLEAN]
    /\ banDuration \in Nat
    /\ \A i \in Ids : cnt[i] = Absent \/ (cnt[i].val \in 1..VIPRPM /\ cnt[i].ttl \in 1..WindowSeconds)
    /\ \A i \in Ids : ban[i] = NoBan \/ (ban[i].val \in BanValues /\ ban[i].ttl \in (1..banDuration) \cup {-1})

====
